---------------------------- MODULE Spec2Model ----------------------------
(***************************************************************************)
(* A model of the AppStream streaming/control engine:                      *)
(*   - the command codec (app/core/remote_command.py),                     *)
(*   - the command channel and its dispatch into the Input Executor        *)
(*     (StreamServer._handle_commands / _execute_command),                 *)
(*   - the video send loop and its pacing (StreamServer._handle_client),   *)
(*   - the client's receive loop (StreamClient._receive_frames),           *)
(*   - the tunnel manager (app/utils/ngrok_service.py).                    *)
(* Each subsystem has its own specification over its own variables; the    *)
(* variables of the other subsystems stay at their initial values.         *)
(***************************************************************************)
EXTENDS Integers, Sequences, FiniteSets, TLC

VARIABLES
  \* ---- command codec (RemoteCommand) ----
  cmd,            \* the RemoteCommand at hand (built by a factory), or NoCommand
  json_str,       \* the str handed to from_json
  parsed,         \* what from_json returned (or that it raised)
  codecPc,        \* "idle" | "built" | "encoded" | "decoded"
  origin,         \* "factory" (json_str came from to_json) | "foreign"
  \* ---- command channel (StreamServer._handle_commands) ----
  cmdLines,       \* the lines the peer sends, in order (names of WireLines)
  cmdWire,        \* the bytes of the connection not yet returned by recv
  cmdBuffer,      \* the handler's buffer (a str: a sequence of characters)
  cmdPc,          \* "recv" (in the while loop) | "closed" (handler ended)
  cmdExit,        \* why the handler ended: "" | "eof" | "error"
  cmdSplit,       \* some recv so far ended inside a line
  dispatched,     \* the commands passed to _execute_command, in order
  applied,        \* the RemoteControl calls made, in order
  \* ---- tunnel manager (NgrokService) and the provider (pyngrok) ----
  tunnels,        \* self.tunnels: name -> [tunnel, url, port, protocol]
  live,           \* the tunnels (handles) that are open at the provider
  nextHandle,     \* the handle of the next tunnel the provider opens
  lastCall,       \* the last NgrokService call: its arguments, what it asked of the
                  \* provider, what the provider answered, what it returned
  \* ---- video channel (StreamServer._accept_connections / _handle_client) ----
  now,            \* time.time(), in ticks
  running,        \* StreamServer.running
  last_frame_time,\* StreamServer.last_frame_time (one field of the server)
  frame_time,     \* StreamServer.frame_time, in ticks
  connections,    \* StreamServer.connections (a list)
  sockOpen,       \* per connection: its server-side socket is open
  acceptPc,       \* the accept thread: "accept" | "append" | "done"
  accepted,       \* the connection the accept thread is about to append
  hPc,            \* per connection, its handler thread: "none" | "loop" | "sleep" |
                  \* "capture" | "backoff" | "send" | "finally" | "done"
  current_time,   \* per handler: its local current_time
  ownLast,        \* per connection: current_time of the last frame sent on it
  \* ---- video client (StreamClient._receive_frames) ----
  frames,         \* the images the server sent, in order
  writer,         \* how the stream was written: [kind, platform]
  platform,       \* the client host's native unsigned long: [size, order]
  corruption,     \* what the network did to the first frame: "none" | "length" |
                  \* "payload" | "image"
  vidWire,        \* the bytes of the video connection not yet returned by recv
  self_data,      \* StreamClient.data
  rPc,            \* the receive thread: "size" | "payload" | "done"
  msg_size,       \* its local msg_size
  delivered,      \* the frames the callback was called with, in order
  cliRunning,     \* StreamClient.running
  callbackFaults, \* what the n-th call of the callback does: "ok" | "error" |
                  \* "connection_error" (the exception it raises)
  recvFaults,     \* how recv has failed so far: a set of "eof" | "connection_error" | "os_error"
  client_socket,  \* StreamClient.client_socket: "open" | "none"
  command_socket, \* StreamClient.command_socket: "open" | "none"
  \* ---- tunnel URL parsers ----
  url,            \* the URL handed to a parser: [scheme, host, port, suffix]
  urlParser,      \* which parser ran: "" | "_parse_ngrok_url" | "extract_host_port"
  urlResult,      \* the (host, port) it returned
  \* ---- run_network_diagnostics ----
  probe,          \* what the network answered: [ports, ping_success, open]
  results,        \* the report the call returned
  \* ---- StreamServer settings ----
  quality,        \* StreamServer.quality
  fps_limit,      \* StreamServer.fps_limit
  frame_period,   \* StreamServer.frame_time as the fraction [num, den] of a second
  lastSet,        \* the last setter call: [op, arg]
  \* ---- the command threads of the server (_accept_commands, _handle_commands) ----
  cmdAcceptPc,    \* the command accept thread: "accept" | "done"
  kPc,            \* per command connection, its handler thread: "none" | "loop" |
                  \* "recv" | "finally" | "done"
  kOpen,          \* per command connection: its server-side socket is open
  \* ---- StreamClient as its caller sees it (connect, send_command, disconnect) ----
  self_host,      \* StreamClient.host
  self_port,      \* StreamClient.port
  connRunning,    \* StreamClient.running
  connCommandSocket, \* StreamClient.command_socket: "open" | "none"
  videoAddr,      \* the address the video socket was last connected to
  commandAddr,    \* the address the command socket was last connected to
  connLast,       \* the last connect call that found the client not running:
                  \* [called, host, port, command_port, returned]
  connRefused,    \* the last connect call found the client running and returned False
  sentWire,       \* what has been written to the command socket at hand
  sendLast,       \* the last send_command call
  \* ---- StreamServer.start and stop as the caller sees them ----
  server,         \* [running, server_socket, command_socket, accept_threads,
                  \*  command_threads, tunnels]
  server_port,    \* StreamServer.port
  command_port,   \* StreamServer.command_port
  use_ngrok,      \* StreamServer.use_ngrok
  startLast,      \* the last start() call: [called, outcome, returned, raised, before]
  \* ---- ScreenCapture ----
  monitors,       \* ScreenCapture.monitors (mss index k is entry k + 1)
  current_monitor, \* ScreenCapture.current_monitor, an mss index
  monLast,        \* the last call: [op, arg, returned, before, size]
  sct,            \* ScreenCapture.sct: "initial" (of __init__) | "reacquired"
  capLast,        \* the last capture_screen call: [called, region, outs, made,
                  \* returned, raised]
  \* ---- RemoteControl ----
  rcLast,         \* the last method call: [called, call, made, outs, returned, raised]
  injected,       \* the input primitives that went through since the screen settled
  \* ---- the video send loop and the settings ----
  lClock,         \* time.time() in ticks
  settings,       \* [quality, fps_limit, frame_time] of the StreamServer
  setCalls,       \* the number of setter calls so far
  settingsLog,    \* the settings after each setter call
  lLastFrameTime, \* StreamServer.last_frame_time
  framesSent,     \* the number of frames sent, on all connections
  lastFrame,      \* the frame sent last: [sent, conn, quality, frame_time, startCall,
                  \* sendCall, afterMiss]
  handlers,       \* per connection: the handler's position and locals, its socket
                  \* (open, listed)
  \* ---- the threads of a StreamServer over start(), stop(), start() ----
  srv,            \* [running, server_socket, command_socket, connections]; a
                  \* listener is the number of the session that created it, 0 is None
  sessions,       \* the number of start() calls that succeeded
  listenerOpen,   \* the listeners that are open: <<kind, session>>
  acceptors,      \* per accept thread <<kind, session>>: [pc, on], pc "none" | "top" |
                  \* "accept" | "started" | "sleep" | "done", on the listener it
                  \* called accept() on
  senders,        \* per video connection (the session it was accepted in):
                  \* [pc, open], pc "none" | "top" | "send" | "done"
  lastSend,       \* the last frame sent: [by, during], the connection and the
                  \* session it was sent in
  \* ---- the threads of a StreamClient over connect(), disconnect(), connect() ----
  cli,            \* [running, client_socket, command_socket, data]; a socket is the
                  \* number of the connect() that created it, 0 is None; data is
                  \* self.data, each chunk named by the socket it was read from
  connects,       \* the number of connect() calls that created sockets
  openSockets,    \* the sockets that are open: <<kind, number>>
  receivers,      \* per receive thread (the connect() that started it): [pc, on, back],
                  \* pc "none" | "top" | "size" | "payload" | "recv" | "sleep" |
                  \* "teardown" | "disconnect" | "done", on the socket recv was called
                  \* on, back the inner loop recv returns to
  disconnecting,  \* per thread (0 is the caller) its place in disconnect(): "idle" |
                  \* "video_close" | "video_clear" | "command_close" | "command_clear"
  sendPc,         \* the thread in send_command: "idle" | "write"
  cmdSent,        \* the last send_command call: [called, checked, returned, raised,
                  \* socket, wasOpen]
  lastPrefix,     \* the last length prefix taken from self.data: [by, origin]
  lastClose,      \* the last socket a disconnect() closed: [by, socket]
  recvCount,      \* the chunks received so far
  \* ---- start() and connect() called on objects in every state ----
  streamServer,   \* a StreamServer: the fields start() and stop() set
  serverNgrok,    \* its use_ngrok
  streamClient,   \* a StreamClient: [running, client_socket, command_socket, data]
  socketsMade,    \* the number of connect() calls that created sockets
  receiveThreads, \* the number of receive threads started
  lastRefusal     \* the last start() or connect(): [op, calls, onRunning, returned,
                  \* refused], calls the number of calls so far, refused the
                  \* operations called so far on a running object

codecVars == <<cmd, json_str, parsed, codecPc, origin>>
cmdVars == <<cmdLines, cmdWire, cmdBuffer, cmdPc, cmdExit, cmdSplit, dispatched, applied>>

\* what the actions of one subsystem leave alone
tunnelVars == <<tunnels, live, nextHandle, lastCall>>
videoVars == <<now, running, last_frame_time, frame_time, connections, sockOpen, acceptPc,
               accepted, hPc, current_time, ownLast>>
clientVars == <<frames, writer, platform, corruption, vidWire, self_data, rPc, msg_size, delivered, cliRunning,
                callbackFaults, recvFaults, client_socket, command_socket>>
urlVars == <<url, urlParser, urlResult>>
diagVars == <<probe, results>>
settingVars == <<quality, fps_limit, frame_period, lastSet>>
stopVars == <<cmdAcceptPc, kPc, kOpen>>
connVars == <<self_host, self_port, connRunning, connCommandSocket, videoAddr, commandAddr, connLast, connRefused, sentWire, sendLast>>
startVars == <<server, server_port, command_port, use_ngrok, startLast>>
monitorVars == <<monitors, current_monitor, monLast, sct, capLast>>
executorVars == <<rcLast, injected>>
loopVars == <<lClock, settings, setCalls, settingsLog, lLastFrameTime, framesSent, lastFrame, handlers>>
restartVars == <<srv, sessions, listenerOpen, acceptors, senders, lastSend>>
sessionVars == <<cli, connects, openSockets, receivers, disconnecting, sendPc, cmdSent, lastPrefix, lastClose, recvCount>>
refuseVars == <<streamServer, serverNgrok, streamClient, socketsMade, receiveThreads, lastRefusal>>
notCodecVars == <<cmdVars, tunnelVars, videoVars, clientVars, urlVars, diagVars, settingVars, stopVars, connVars, startVars, monitorVars, executorVars, loopVars, restartVars, sessionVars, refuseVars>>
notCmdVars == <<codecVars, tunnelVars, videoVars, clientVars, urlVars, diagVars, settingVars, stopVars, connVars, startVars, monitorVars, executorVars, loopVars, restartVars, sessionVars, refuseVars>>
notTunnelVars == <<codecVars, cmdVars, videoVars, clientVars, urlVars, diagVars, settingVars, stopVars, connVars, startVars, monitorVars, executorVars, loopVars, restartVars, sessionVars, refuseVars>>
notVideoVars == <<codecVars, cmdVars, tunnelVars, clientVars, urlVars, diagVars, settingVars, stopVars, connVars, startVars, monitorVars, executorVars, loopVars, restartVars, sessionVars, refuseVars>>
notClientVars == <<codecVars, cmdVars, tunnelVars, videoVars, urlVars, diagVars, settingVars, stopVars, connVars, startVars, monitorVars, executorVars, loopVars, restartVars, sessionVars, refuseVars>>
notUrlVars == <<codecVars, cmdVars, tunnelVars, videoVars, clientVars, diagVars, settingVars, stopVars, connVars, startVars, monitorVars, executorVars, loopVars, restartVars, sessionVars, refuseVars>>
notDiagVars == <<codecVars, cmdVars, tunnelVars, videoVars, clientVars, urlVars, settingVars, stopVars, connVars, startVars, monitorVars, executorVars, loopVars, restartVars, sessionVars, refuseVars>>
notSettingVars == <<codecVars, cmdVars, tunnelVars, videoVars, clientVars, urlVars, diagVars, stopVars, connVars, startVars, monitorVars, executorVars, loopVars, restartVars, sessionVars, refuseVars>>
notStopVars == <<codecVars, cmdVars, tunnelVars, videoVars, clientVars, urlVars, diagVars, settingVars, connVars, startVars, monitorVars, executorVars, loopVars, restartVars, sessionVars, refuseVars>>
notConnVars == <<codecVars, cmdVars, tunnelVars, videoVars, clientVars, urlVars, diagVars, settingVars, stopVars, startVars, monitorVars, executorVars, loopVars, restartVars, sessionVars, refuseVars>>
notStartVars == <<codecVars, cmdVars, tunnelVars, videoVars, clientVars, urlVars, diagVars, settingVars, stopVars, connVars, monitorVars, executorVars, loopVars, restartVars, sessionVars, refuseVars>>
notMonitorVars == <<codecVars, cmdVars, tunnelVars, videoVars, clientVars, urlVars, diagVars, settingVars, stopVars, connVars, startVars, executorVars, loopVars, restartVars, sessionVars, refuseVars>>
notExecutorVars == <<codecVars, cmdVars, tunnelVars, videoVars, clientVars, urlVars, diagVars, settingVars, stopVars, connVars, startVars, monitorVars, loopVars, restartVars, sessionVars, refuseVars>>
notLoopVars == <<codecVars, cmdVars, tunnelVars, videoVars, clientVars, urlVars, diagVars, settingVars, stopVars, connVars, startVars, monitorVars, executorVars, restartVars, sessionVars, refuseVars>>
notRestartVars == <<codecVars, cmdVars, tunnelVars, videoVars, clientVars, urlVars, diagVars, settingVars, stopVars, connVars, startVars, monitorVars, executorVars, loopVars, sessionVars, refuseVars>>
notSessionVars == <<codecVars, cmdVars, tunnelVars, videoVars, clientVars, urlVars, diagVars, settingVars, stopVars, connVars, startVars, monitorVars, executorVars, loopVars, restartVars, refuseVars>>
notRefuseVars == <<codecVars, cmdVars, tunnelVars, videoVars, clientVars, urlVars, diagVars, settingVars, stopVars, connVars, startVars, monitorVars, executorVars, loopVars, restartVars, sessionVars>>

(***************************************************************************)
(* Python and JSON values.  Every value is a record of one shape, so that  *)
(* values of different Python types can be compared:                       *)
(*   t  the type: "int" "bool" "str" "list" "tuple" "none" "dict" for a    *)
(*      Python value, "number" "bool" "string" "array" "null" "object"     *)
(*      for a JSON value, "enum" for a CommandType member (i its value),   *)
(*   i  the int, b the bool, s the str, l the items of a list of str,      *)
(*   d  the items of a dict (a function from its keys to values).          *)
(***************************************************************************)
Val(t, i, b, s, l, d) == [t |-> t, i |-> i, b |-> b, s |-> s, l |-> l, d |-> d]
PyInt(n) == Val("int", n, FALSE, "", <<>>, <<>>)
PyBool(x) == Val("bool", 0, x, "", <<>>, <<>>)
PyStr(x) == Val("str", 0, FALSE, x, <<>>, <<>>)
PyList(x) == Val("list", 0, FALSE, "", x, <<>>)
PyTuple(x) == Val("tuple", 0, FALSE, "", x, <<>>)
PyNone == Val("none", 0, FALSE, "", <<>>, <<>>)
PyDict(f) == Val("dict", 0, FALSE, "", <<>>, f)
EmptyItems == [k \in {} |-> PyNone]

\* dict literals with one, two and three items
Dict1(k1, v1) == PyDict([k \in {k1} |-> v1])
Dict2(k1, v1, k2, v2) == PyDict([k \in {k1, k2} |-> IF k = k1 THEN v1 ELSE v2])
Dict3(k1, v1, k2, v2, k3, v3) ==
  PyDict([k \in {k1, k2, k3} |-> IF k = k1 THEN v1 ELSE IF k = k2 THEN v2 ELSE v3])

\* key in dict (False for a value that is no dict is never asked: callers test the type)
HasKey(v, k) == v.t = "dict" /\ k \in DOMAIN v.d

(***************************************************************************)
(* CommandType (remote_command.py:12-23): the member values.               *)
(***************************************************************************)
MOUSE_MOVE == 1
MOUSE_CLICK == 2
MOUSE_DOWN == 3
MOUSE_UP == 4
MOUSE_SCROLL == 5
KEY_PRESS == 6
KEY_DOWN == 7
KEY_UP == 8
TYPE_TEXT == 9
HOTKEY == 10
CommandTypeValues == MOUSE_MOVE..HOTKEY

\* self.command_type.value
EnumValue(member) == PyInt(member.i)
EnumMember(n) == Val("enum", n, FALSE, "", <<>>, <<>>)

\* CommandType(value): the member whose value equals `value` under Python's ==
\* (True == 1); ValueError (or TypeError for an unhashable value) otherwise.
CommandTypeLookup(v) ==
  IF v.t = "int" /\ v.i \in CommandTypeValues THEN [ok |-> TRUE, member |-> EnumMember(v.i)]
  ELSE IF v.t = "bool" /\ v.b THEN [ok |-> TRUE, member |-> EnumMember(1)]
  ELSE [ok |-> FALSE, member |-> EnumMember(0)]

(***************************************************************************)
(* json.dumps / json.loads.  A str holding JSON text is modelled by        *)
(* whether it is well-formed JSON (wf) and, if so, the JSON value it       *)
(* denotes (doc).  dumps maps Python types to JSON types (a tuple becomes  *)
(* an array, as a list does), loads maps them back (an array becomes a     *)
(* list).                                                                  *)
(***************************************************************************)
RECURSIVE JsonOf(_)
JsonOf(v) ==
  CASE v.t = "int" -> [v EXCEPT !.t = "number"]
    [] v.t = "bool" -> v
    [] v.t = "str" -> [v EXCEPT !.t = "string"]
    [] v.t = "list" -> [v EXCEPT !.t = "array"]
    [] v.t = "tuple" -> [v EXCEPT !.t = "array"]
    [] v.t = "none" -> [v EXCEPT !.t = "null"]
    [] v.t = "dict" -> [v EXCEPT !.t = "object", !.d = [k \in DOMAIN v.d |-> JsonOf(v.d[k])]]

RECURSIVE PyOf(_)
PyOf(j) ==
  CASE j.t = "number" -> [j EXCEPT !.t = "int"]
    [] j.t = "bool" -> j
    [] j.t = "string" -> [j EXCEPT !.t = "str"]
    [] j.t = "array" -> [j EXCEPT !.t = "list"]
    [] j.t = "null" -> [j EXCEPT !.t = "none"]
    [] j.t = "object" -> [j EXCEPT !.t = "dict", !.d = [k \in DOMAIN j.d |-> PyOf(j.d[k])]]

JsonDumps(v) == [wf |-> TRUE, doc |-> JsonOf(v)]
MalformedJson == [wf |-> FALSE, doc |-> Val("null", 0, FALSE, "", <<>>, <<>>)]
\* json.loads: [ok, value]; ok = FALSE is json.JSONDecodeError
JsonLoads(str) ==
  IF str.wf THEN [ok |-> TRUE, value |-> PyOf(str.doc)] ELSE [ok |-> FALSE, value |-> PyNone]

(***************************************************************************)
(* RemoteCommand                                                           *)
(***************************************************************************)
RemoteCommand(command_type, params) ==
  [isNone |-> FALSE, command_type |-> command_type, params |-> params]
NoCommand == [isNone |-> TRUE, command_type |-> EnumMember(0), params |-> PyNone]

\* to_json writing the member's name instead of its value
to_json_name(c) ==
  JsonDumps(Dict2("type", PyStr("MEMBER_NAME"), "params", c.params))

to_json(c) ==
  JsonDumps(Dict2("type", EnumValue(c.command_type), "params", c.params))

\* from_json: [raised, command]; every exception of the body is caught and gives None
from_json(str) ==
  LET data == JsonLoads(str)
      typ == CommandTypeLookup(data.value.d["type"])
  IN  IF ~data.ok THEN [raised |-> FALSE, command |-> NoCommand]
      ELSE IF ~HasKey(data.value, "type") THEN [raised |-> FALSE, command |-> NoCommand]
      ELSE IF ~typ.ok THEN [raised |-> FALSE, command |-> NoCommand]
      ELSE IF ~HasKey(data.value, "params") THEN [raised |-> FALSE, command |-> NoCommand]
      ELSE [raised |-> FALSE,
            command |-> RemoteCommand(typ.member, data.value.d["params"])]


\* the create_* factories (remote_command.py:72-236)
create_mouse_move(x, y, relative) ==
  RemoteCommand(EnumMember(MOUSE_MOVE),
                Dict3("x", PyInt(x), "y", PyInt(y), "relative", PyBool(relative)))
create_mouse_click(button, double) ==
  RemoteCommand(EnumMember(MOUSE_CLICK), Dict2("button", PyStr(button), "double", PyBool(double)))
create_mouse_down(button) == RemoteCommand(EnumMember(MOUSE_DOWN), Dict1("button", PyStr(button)))
create_mouse_up(button) == RemoteCommand(EnumMember(MOUSE_UP), Dict1("button", PyStr(button)))
create_mouse_scroll(clicks) == RemoteCommand(EnumMember(MOUSE_SCROLL), Dict1("clicks", PyInt(clicks)))
create_key_press(key) == RemoteCommand(EnumMember(KEY_PRESS), Dict1("key", PyStr(key)))
create_key_down(key) == RemoteCommand(EnumMember(KEY_DOWN), Dict1("key", PyStr(key)))
create_key_up(key) == RemoteCommand(EnumMember(KEY_UP), Dict1("key", PyStr(key)))
create_type_text(text) == RemoteCommand(EnumMember(TYPE_TEXT), Dict1("text", PyStr(text)))
create_hotkey(keys) == RemoteCommand(EnumMember(HOTKEY), Dict1("keys", PyList(keys)))

\* the arguments the factories are called with
SampleInts == {-3, 0, 7}
SampleButtons == {"left", "right", "middle"}
SampleKeys == {"a", "enter"}
SampleTexts == {"", "hi", "caf\\u00e9"}
SampleHotkeys == {<<>>, <<"ctrl", "c">>, <<"ctrl", "shift", "esc">>}

FactoryCommands ==
  {create_mouse_move(x, y, r) : x \in SampleInts, y \in {0, 7}, r \in BOOLEAN}
  \cup {create_mouse_click(b, d) : b \in SampleButtons, d \in BOOLEAN}
  \cup {create_mouse_down(b) : b \in SampleButtons}
  \cup {create_mouse_up(b) : b \in SampleButtons}
  \cup {create_mouse_scroll(n) : n \in SampleInts}
  \cup {create_key_press(k) : k \in SampleKeys}
  \cup {create_key_down(k) : k \in SampleKeys}
  \cup {create_key_up(k) : k \in SampleKeys}
  \cup {create_type_text(x) : x \in SampleTexts}
  \cup {create_hotkey(ks) : ks \in SampleHotkeys}

(***************************************************************************)
(* JSON texts a peer may send that no factory produced.                    *)
(***************************************************************************)
Wire(typ, params) == JsonDumps(Dict2("type", typ, "params", params))
ForeignStrings ==
  { MalformedJson,                                        \* not JSON at all
    JsonDumps(PyList(<<"a">>)),                           \* ["a"]
    JsonDumps(PyInt(1)),                                  \* 1
    JsonDumps(Dict1("params", PyDict(EmptyItems))),       \* {"params":{}}
    JsonDumps(Dict1("type", PyInt(MOUSE_MOVE))),          \* {"type":1}
    Wire(PyInt(0), PyDict(EmptyItems)),                   \* {"type":0,"params":{}}
    Wire(PyInt(11), Dict1("key", PyStr("a"))),            \* {"type":11,"params":{"key":"a"}}
    Wire(PyStr("1"), Dict1("key", PyStr("a"))),           \* {"type":"1",...}
    Wire(PyNone, PyDict(EmptyItems)),                     \* {"type":null,"params":{}}
    Wire(PyBool(TRUE), Dict1("key", PyStr("a"))),         \* {"type":true,...}
    Wire(PyInt(MOUSE_MOVE), Dict1("y", PyInt(5))),        \* MouseMove without x
    Wire(PyInt(MOUSE_MOVE), Dict2("x", PyInt(1), "y", PyInt(5))), \* without relative
    Wire(PyInt(MOUSE_CLICK), PyDict(EmptyItems)),         \* MouseClick without fields
    Wire(PyInt(MOUSE_SCROLL), PyDict(EmptyItems)),        \* MouseScroll without clicks
    Wire(PyInt(KEY_PRESS), PyNone),                       \* {"type":6,"params":null}
    Wire(PyInt(HOTKEY), Dict1("keys", PyInt(3))),         \* keys is no list
    Wire(PyInt(KEY_PRESS), Dict1("key", PyStr("a"))),     \* a complete KeyPress
    Wire(PyInt(MOUSE_DOWN), Dict1("button", PyStr("left"))) }

(***************************************************************************)
(* The codec as a state machine: a command is built by a factory and       *)
(* encoded, or a text arrives from a peer; the text is decoded.            *)
(***************************************************************************)
NoResult == [raised |-> FALSE, command |-> NoCommand]

CodecInit ==
  /\ cmd = NoCommand
  /\ json_str = MalformedJson
  /\ parsed = NoResult
  /\ codecPc = "idle"
  /\ origin = "factory"

BuildCommand ==
  /\ UNCHANGED notCodecVars
  /\ codecPc = "idle"
  /\ \E c \in FactoryCommands : cmd' = c
  /\ codecPc' = "built"
  /\ origin' = "factory"
  /\ UNCHANGED <<json_str, parsed>>

ToJson ==
  /\ UNCHANGED notCodecVars
  /\ codecPc = "built"
  /\ json_str' = to_json(cmd)
  /\ codecPc' = "encoded"
  /\ UNCHANGED <<cmd, parsed, origin>>

ReceiveText ==
  /\ UNCHANGED notCodecVars
  /\ codecPc = "idle"
  /\ \E str \in ForeignStrings : json_str' = str
  /\ origin' = "foreign"
  /\ codecPc' = "encoded"
  /\ UNCHANGED <<cmd, parsed>>

FromJson ==
  /\ UNCHANGED notCodecVars
  /\ codecPc = "encoded"
  /\ parsed' = from_json(json_str)
  /\ codecPc' = "decoded"
  /\ UNCHANGED <<cmd, json_str, origin>>

CodecReset ==
  /\ UNCHANGED notCodecVars
  /\ codecPc = "decoded"
  /\ cmd' = NoCommand
  /\ json_str' = MalformedJson
  /\ parsed' = NoResult
  /\ codecPc' = "idle"
  /\ origin' = "factory"

CodecNext == BuildCommand \/ ToJson \/ ReceiveText \/ FromJson \/ CodecReset

(***************************************************************************)
(* What the data model declares of a wire text: the fields of each         *)
(* variant, whether the text's discriminator is one of the codes 1..10,    *)
(* and whether its params hold every field its variant declares.           *)
(***************************************************************************)
DeclaredFields(n) ==
  CASE n = MOUSE_MOVE -> {"x", "y", "relative"}
    [] n = MOUSE_CLICK -> {"button", "double"}
    [] n \in {MOUSE_DOWN, MOUSE_UP} -> {"button"}
    [] n = MOUSE_SCROLL -> {"clicks"}
    [] n \in {KEY_PRESS, KEY_DOWN, KEY_UP} -> {"key"}
    [] n = TYPE_TEXT -> {"text"}
    [] n = HOTKEY -> {"keys"}

KnownDiscriminator(str) ==
  /\ str.wf
  /\ str.doc.t = "object"
  /\ "type" \in DOMAIN str.doc.d
  /\ str.doc.d["type"].t = "number"
  /\ str.doc.d["type"].i \in CommandTypeValues

HasDeclaredFields(str) ==
  /\ KnownDiscriminator(str)
  /\ "params" \in DOMAIN str.doc.d
  /\ str.doc.d["params"].t = "object"
  /\ DeclaredFields(str.doc.d["type"].i) \subseteq DOMAIN str.doc.d["params"].d

\* C4: for every command c built by a create_* factory, from_json(c.to_json())
\* is a command with c's command_type and c's params (the round-trip law).
RoundTripLaw ==
  (codecPc = "decoded" /\ origin = "factory") =>
    /\ ~parsed.raised
    /\ ~parsed.command.isNone
    /\ parsed.command.command_type = cmd.command_type
    /\ parsed.command.params = cmd.params

\* a Hotkey (a list-valued field) and a MouseMove (int and bool fields) came back
RoundTripWitness ==
  /\ codecPc = "decoded"
  /\ origin = "factory"
  /\ cmd \in {create_hotkey(<<"ctrl", "c">>), create_mouse_move(-3, 7, TRUE)}
  /\ parsed.command = cmd

\* C5: from_json returns None, and does not raise, for every input whose
\* discriminator is not one of the codes 1..10 or whose params lack a field
\* its variant declares.
DecodeRejectsIncomplete ==
  (codecPc = "decoded" /\ ~HasDeclaredFields(json_str)) =>
    (~parsed.raised /\ parsed.command.isNone)

(***************************************************************************)
(* The Input Executor as _execute_command uses it: the RemoteControl call  *)
(* a command leads to, if any.  params['k'] raises for a missing key and   *)
(* for params that are no dict; params.get('k', default) raises for params *)
(* that are no dict; every exception is caught and nothing is called.      *)
(***************************************************************************)
Call(method, args) == [method |-> method, args |-> args]
ParamsGet(params, k, default) == IF k \in DOMAIN params.d THEN params.d[k] ELSE default

RECURSIVE SeqOfSet(_)
SeqOfSet(S) == IF S = {} THEN <<>> ELSE LET x == CHOOSE y \in S : TRUE IN <<x>> \o SeqOfSet(S \ {x})

\* the arguments *value unpacks to: [ok, args]; a value that is not iterable raises.
\* (The strs that occur as "keys" have at most one character.)
Unpack(v) ==
  CASE v.t \in {"list", "tuple"} -> [ok |-> TRUE, args |-> [n \in DOMAIN v.l |-> PyStr(v.l[n])]]
    [] v.t = "str" -> [ok |-> TRUE, args |-> IF v.s = "" THEN <<>> ELSE <<v>>]
    [] v.t = "dict" ->
         [ok |-> TRUE, args |-> LET ks == SeqOfSet(DOMAIN v.d) IN [n \in DOMAIN ks |-> PyStr(ks[n])]]
    [] OTHER -> [ok |-> FALSE, args |-> <<>>]

\* the calls (none or one) _execute_command(command) makes
execute_command(command) ==
  LET p == command.params
      n == command.command_type.i
      isDict == p.t = "dict"
      one(method, k) == IF HasKey(p, k) THEN <<Call(method, <<p.d[k]>>)>> ELSE <<>>
  IN  CASE n = MOUSE_MOVE ->
             IF HasKey(p, "x") /\ HasKey(p, "y")
             THEN <<Call("move_mouse", <<p.d["x"], p.d["y"], ParamsGet(p, "relative", PyBool(FALSE))>>)>>
             ELSE <<>>
        [] n = MOUSE_CLICK ->
             IF isDict
             THEN <<Call("click_mouse", <<ParamsGet(p, "button", PyStr("left")),
                                          ParamsGet(p, "double", PyBool(FALSE))>>)>>
             ELSE <<>>
        [] n = MOUSE_DOWN ->
             IF isDict THEN <<Call("mouse_down", <<ParamsGet(p, "button", PyStr("left"))>>)>> ELSE <<>>
        [] n = MOUSE_UP ->
             IF isDict THEN <<Call("mouse_up", <<ParamsGet(p, "button", PyStr("left"))>>)>> ELSE <<>>
        [] n = MOUSE_SCROLL -> one("scroll_mouse", "clicks")
        [] n = KEY_PRESS -> one("press_key", "key")
        [] n = KEY_DOWN -> one("key_down", "key")
        [] n = KEY_UP -> one("key_up", "key")
        [] n = TYPE_TEXT -> one("type_text", "text")
        [] n = HOTKEY ->
             IF HasKey(p, "keys") /\ Unpack(p.d["keys"]).ok
             THEN <<Call("hotkey", Unpack(p.d["keys"]).args)>>
             ELSE <<>>
        [] OTHER -> <<>>

(***************************************************************************)
(* The command wire: UTF-8 text lines.  Characters are code points; the    *)
(* text of each sample line is abbreviated to one or two characters, and   *)
(* JsonText gives the JSON text a line of characters stands for.           *)
(***************************************************************************)
NEWLINE == 10
EACUTE == 233
INVALID_BYTE == 255

\* str.encode('utf-8') for code points below 2048
RECURSIVE Utf8Encode(_)
Utf8Encode(chars) ==
  IF chars = <<>> THEN <<>>
  ELSE LET c == Head(chars)
       IN  (IF c < 128 THEN <<c>> ELSE <<192 + (c \div 64), 128 + (c % 64)>>)
           \o Utf8Encode(Tail(chars))

\* bytes.decode('utf-8') (strict) for one- and two-byte sequences: [ok, chars];
\* ok = FALSE is UnicodeDecodeError (a lead byte without its continuation byte,
\* a continuation byte without a lead byte, a byte that is never valid)
RECURSIVE Utf8Decode(_)
Utf8Decode(bytes) ==
  IF bytes = <<>> THEN [ok |-> TRUE, chars |-> <<>>]
  ELSE LET b == Head(bytes)
       IN  IF b < 128
           THEN LET rest == Utf8Decode(Tail(bytes))
                IN  [ok |-> rest.ok, chars |-> <<b>> \o rest.chars]
           ELSE IF b \in 194..223 /\ Len(bytes) >= 2 /\ bytes[2] \in 128..191
           THEN LET rest == Utf8Decode(Tail(Tail(bytes)))
                IN  [ok |-> rest.ok, chars |-> <<(b - 192) * 64 + (bytes[2] - 128)>> \o rest.chars]
           ELSE [ok |-> FALSE, chars |-> <<>>]

\* the sample lines: the bytes the peer writes before the newline, and the JSON
\* text they are (raw: the bytes are not UTF-8 at all)
WireLines ==
  [ key   |-> [bytes |-> <<107>>, raw |-> FALSE,          \* k: a complete KeyPress
               text |-> to_json(create_key_press("a"))],
    down  |-> [bytes |-> <<100>>, raw |-> FALSE,          \* d: a complete MouseDown
               text |-> to_json(create_mouse_down("right"))],
    accent |-> [bytes |-> Utf8Encode(<<116, EACUTE>>), raw |-> FALSE,
                                                          \* t: TypeText with a raw e-acute
               text |-> to_json(create_type_text("caf\\u00e9"))],
    click |-> [bytes |-> <<99>>, raw |-> FALSE,           \* c: MouseClick without fields
               text |-> Wire(PyInt(MOUSE_CLICK), PyDict(EmptyItems))],
    nox   |-> [bytes |-> <<109>>, raw |-> FALSE,          \* m: MouseMove without x
               text |-> Wire(PyInt(MOUSE_MOVE), Dict1("y", PyInt(5)))],
    unknown |-> [bytes |-> <<117>>, raw |-> FALSE,        \* u: discriminator 11
                 text |-> Wire(PyInt(11), Dict1("key", PyStr("a")))],
    garbage |-> [bytes |-> <<63>>, raw |-> FALSE,         \* ?: not JSON
                 text |-> MalformedJson],
    binary |-> [bytes |-> <<INVALID_BYTE>>, raw |-> TRUE, \* not UTF-8
                text |-> MalformedJson] ]
LineNames == DOMAIN WireLines

\* the JSON text a line of characters is: that of the sample line with these
\* characters, and no JSON at all otherwise
JsonText(chars) ==
  IF \E n \in LineNames : ~WireLines[n].raw /\ Utf8Decode(WireLines[n].bytes).chars = chars
  THEN WireLines[CHOOSE n \in LineNames :
                   ~WireLines[n].raw /\ Utf8Decode(WireLines[n].bytes).chars = chars].text
  ELSE MalformedJson

\* the bytes of a sequence of lines, each followed by a newline
RECURSIVE StreamOf(_)
StreamOf(names) ==
  IF names = <<>> THEN <<>>
  ELSE WireLines[Head(names)].bytes \o <<NEWLINE>> \o StreamOf(Tail(names))

\* the sequences over S of length at most n
SeqsUpTo(S, n) == UNION {[1..k -> S] : k \in 0..n}

MaxLines == 3
MaxChunk == 3
Min(a, b) == IF a < b THEN a ELSE b

(***************************************************************************)
(* _handle_commands                                                        *)
(***************************************************************************)
\* '\n' in buffer
HasNewline(buffer) == \E n \in DOMAIN buffer : buffer[n] = NEWLINE
\* buffer.split('\n', 1)
SplitLine(buffer) ==
  LET n == CHOOSE m \in DOMAIN buffer :
             buffer[m] = NEWLINE /\ \A k \in 1..(m - 1) : buffer[k] # NEWLINE
  IN  [command_str |-> SubSeq(buffer, 1, n - 1), buffer |-> SubSeq(buffer, n + 1, Len(buffer))]

\* buffer = data + buffer
PrependData(buffer, data) == data \o buffer

\* buffer += data
AppendData(buffer, data) == buffer \o data

\* the inner loop: while '\n' in buffer, split off a line, decode it, execute it
RECURSIVE ProcessBuffer(_, _, _)
ProcessBuffer(buffer, disp, app) ==
  IF ~HasNewline(buffer) THEN [buffer |-> buffer, dispatched |-> disp, applied |-> app]
  ELSE LET sp == SplitLine(buffer)
           command == from_json(JsonText(sp.command_str)).command
       IN  IF command.isNone
           THEN ProcessBuffer(sp.buffer, disp, app)
           ELSE ProcessBuffer(sp.buffer, Append(disp, command),
                              app \o [n \in DOMAIN execute_command(command) |->
                                        [line |-> sp.command_str,
                                         call |-> execute_command(command)[n]]])

CmdInit ==
  /\ cmdLines \in SeqsUpTo(LineNames, MaxLines)
  /\ cmdWire = StreamOf(cmdLines)
  /\ cmdBuffer = <<>>
  /\ cmdPc = "recv"
  /\ cmdExit = ""
  /\ cmdSplit = FALSE
  /\ dispatched = <<>>
  /\ applied = <<>>

\* one pass of the while loop: recv returned n >= 1 bytes
CmdRecv ==
  /\ UNCHANGED notCmdVars
  /\ cmdPc = "recv"
  /\ cmdWire # <<>>
  /\ \E n \in 1..Min(MaxChunk, Len(cmdWire)) :
       LET data == Utf8Decode(SubSeq(cmdWire, 1, n))
           res == ProcessBuffer(AppendData(cmdBuffer, data.chars), dispatched, applied)
       IN  /\ cmdWire' = SubSeq(cmdWire, n + 1, Len(cmdWire))
           /\ IF data.ok
              THEN /\ cmdBuffer' = res.buffer
                   /\ dispatched' = res.dispatched
                   /\ applied' = res.applied
                   /\ cmdSplit' = (cmdSplit \/ cmdWire[n] # NEWLINE)
                   /\ UNCHANGED <<cmdPc, cmdExit>>
              ELSE \* UnicodeDecodeError: the outer except, then finally: close
                   /\ cmdPc' = "closed"
                   /\ cmdExit' = "error"
                   /\ UNCHANGED <<cmdBuffer, dispatched, applied, cmdSplit>>
  /\ UNCHANGED cmdLines

\* the peer closed after its last byte: recv returns b"", the loop breaks
CmdRecvEof ==
  /\ UNCHANGED notCmdVars
  /\ cmdPc = "recv"
  /\ cmdWire = <<>>
  /\ cmdPc' = "closed"
  /\ cmdExit' = "eof"
  /\ UNCHANGED <<cmdLines, cmdWire, cmdBuffer, cmdSplit, dispatched, applied>>

CmdNext == CmdRecv \/ CmdRecvEof

(***************************************************************************)
(* What the peer's lines call for, line by line in arrival order.          *)
(***************************************************************************)
\* a line that is a valid encoded command: UTF-8, a known discriminator, every field
ValidLine(name) == ~WireLines[name].raw /\ HasDeclaredFields(WireLines[name].text)

\* the commands of the lines that decode, in the order of the lines
RECURSIVE DecodableCommands(_)
DecodableCommands(names) ==
  IF names = <<>> THEN <<>>
  ELSE LET line == WireLines[Head(names)]
           command == from_json(line.text).command
       IN  (IF line.raw \/ command.isNone THEN <<>> ELSE <<command>>)
           \o DecodableCommands(Tail(names))

\* the RemoteControl calls of the lines, in the order of the lines
RECURSIVE ExpectedCalls(_)
ExpectedCalls(names) ==
  IF names = <<>> THEN <<>>
  ELSE LET line == WireLines[Head(names)]
           command == from_json(line.text).command
           calls == IF line.raw \/ command.isNone THEN <<>> ELSE execute_command(command)
       IN  [n \in DOMAIN calls |-> [line |-> Utf8Decode(line.bytes).chars, call |-> calls[n]]]
           \o ExpectedCalls(Tail(names))

IsPrefix(a, b) == Len(a) <= Len(b) /\ a = SubSeq(b, 1, Len(a))

\* C3: k newline-terminated valid encoded commands, delivered in reads split at
\* any position, lead to exactly k commands dispatched to _execute_command.
ExactlyKDispatched ==
  (cmdPc = "closed" /\ \A i \in DOMAIN cmdLines : ValidLine(cmdLines[i])) =>
    Len(dispatched) = Len(cmdLines)

\* C6: a line whose discriminator is unknown or whose params lack a declared
\* field leads to no RemoteControl call at all.
IncompleteNeverApplied ==
  \A i \in DOMAIN applied : HasDeclaredFields(JsonText(applied[i].line))

\* C7: malformed input (bad JSON, unknown type, missing fields, bytes that are
\* not UTF-8) never ends the handler: it ends only when the peer closes, having
\* dispatched every line that decodes.
MalformedNeverTerminates ==
  cmdPc = "closed" => (cmdExit = "eof" /\ dispatched = DecodableCommands(cmdLines))

\* C8: the calls made at the Input Executor are made in the order in which
\* their lines arrived, whatever the chunking: at every moment they are the
\* first calls the lines call for, and all of them once the peer has closed.
AppliedInArrivalOrder ==
  /\ IsPrefix(applied, ExpectedCalls(cmdLines))
  /\ cmdExit = "eof" => applied = ExpectedCalls(cmdLines)

\* two different calls were made from a stream that was read in pieces ending
\* inside a line
AppliedInArrivalOrderWitness ==
  /\ cmdExit = "eof"
  /\ cmdSplit
  /\ Len(applied) >= 2
  /\ applied[1] # applied[2]

(***************************************************************************)
(* NgrokService.  The provider answers every ngrok.connect with a tunnel   *)
(* ("ok"), with a rejection for the plan's limits (an error whose message  *)
(* holds "TCP endpoints": "plan_limit") or with another error ("error"),   *)
(* and every ngrok.disconnect by closing the tunnel ("ok") or by raising   *)
(* ("raise"), the tunnel staying open.  A service state is                 *)
(*   [tunnels, live, nextHandle, requests, granted, disconnects]           *)
(* where requests are the protocols passed to ngrok.connect, granted the   *)
(* URLs the provider gave and disconnects the handles passed to            *)
(* ngrok.disconnect, in order.                                             *)
(***************************************************************************)
TunnelNames == {"video", "command"}
Protocols == {"tcp", "http"}
Ports == {5000, 5001}
ConnectOutcomes == {"ok", "plan_limit", "error"}
DisconnectOutcomes == {"ok", "raise"}
MaxHandles == 3

NoTunnels == [n \in {} |-> 0]
NoUrl == [scheme |-> "", id |-> 0]
Url(protocol, handle) == [scheme |-> protocol, id |-> handle]
NoCall ==
  [op |-> "", name |-> "", protocol |-> "", fallback |-> FALSE, replaced |-> 0,
   requests |-> <<>>, outcomes |-> <<>>, granted |-> <<>>, disconnects |-> <<>>,
   result |-> NoUrl, returned |-> FALSE]

\* ngrok.connect(port, protocol) answered with `outcome`: [ok, st, tunnel, url]
ProviderConnect(st, protocol, outcome) ==
  LET asked == [st EXCEPT !.requests = Append(@, protocol)]
  IN  IF outcome = "ok"
      THEN [ok |-> TRUE, tunnel |-> st.nextHandle, url |-> Url(protocol, st.nextHandle),
            st |-> [asked EXCEPT !.live = @ \cup {st.nextHandle},
                                 !.nextHandle = @ + 1,
                                 !.granted = Append(@, Url(protocol, st.nextHandle))]]
      ELSE [ok |-> FALSE, tunnel |-> 0, url |-> NoUrl, st |-> asked]

\* ngrok.disconnect(tunnel) answered with `outcome`: [ok, st]
ProviderDisconnect(st, handle, outcome) ==
  LET asked == [st EXCEPT !.disconnects = Append(@, handle)]
  IN  IF outcome = "ok"
      THEN [ok |-> TRUE, st |-> [asked EXCEPT !.live = @ \ {handle}]]
      ELSE [ok |-> FALSE, st |-> asked]

\* stop_tunnel that reports success for a name it does not hold
stop_tunnel_absent_true(st, name, outcome) ==
  IF name \in DOMAIN st.tunnels
  THEN LET d == ProviderDisconnect(st, st.tunnels[name].tunnel, outcome)
       IN  IF d.ok
           THEN [ret |-> TRUE,
                 st |-> [d.st EXCEPT !.tunnels = [n \in DOMAIN @ \ {name} |-> @[n]]]]
           ELSE [ret |-> FALSE, st |-> d.st]
  ELSE [ret |-> TRUE, st |-> st]

\* stop_tunnel(name): [ret, st]
stop_tunnel(st, name, outcome) ==
  IF name \in DOMAIN st.tunnels
  THEN LET d == ProviderDisconnect(st, st.tunnels[name].tunnel, outcome)
       IN  IF d.ok
           THEN [ret |-> TRUE,
                 st |-> [d.st EXCEPT !.tunnels = [n \in DOMAIN @ \ {name} |-> @[n]]]]
           ELSE [ret |-> FALSE, st |-> d.st]      \* the except: the entry stays
  ELSE [ret |-> FALSE, st |-> st]

\* the fallback without looking at fallback_to_http
ShouldFallbackAlways(protocol, fallback_to_http, outcome) ==
  protocol = "tcp" /\ outcome = "plan_limit"

\* protocol == "tcp" and fallback_to_http and "TCP endpoints" in str(e)
ShouldFallback(protocol, fallback_to_http, outcome) ==
  protocol = "tcp" /\ fallback_to_http /\ outcome = "plan_limit"

\* start_tunnel(port, name, protocol, fallback_to_http): [ret, st]; ret = NoUrl is
\* None.  outD answers the disconnect of a tunnel already under `name`, out1 the
\* connect, out2 the connect of the fallback.
start_tunnel(st, port, name, protocol, fallback_to_http, outD, out1, out2) ==
  LET st1 == IF name \in DOMAIN st.tunnels THEN stop_tunnel(st, name, outD).st ELSE st
      c1 == ProviderConnect(st1, protocol, out1)
      c2 == ProviderConnect(c1.st, "http", out2)
      store(c, proto) ==
        [ret |-> c.url,
         st |-> [c.st EXCEPT !.tunnels =
                   [n \in DOMAIN @ \cup {name} |->
                      IF n = name
                      THEN [tunnel |-> c.tunnel, url |-> c.url, port |-> port, protocol |-> proto]
                      ELSE @[n]]]]
  IN  IF c1.ok THEN store(c1, protocol)
      ELSE IF ShouldFallback(protocol, fallback_to_http, out1)
      THEN IF c2.ok THEN store(c2, "http") ELSE [ret |-> NoUrl, st |-> c2.st]
      ELSE [ret |-> NoUrl, st |-> c1.st]

\* stop_all_tunnels(): stop_tunnel for each name of list(self.tunnels.keys());
\* outs answers the disconnect of each
\* a loop that gives up at the first stop_tunnel that returns False
RECURSIVE StopEachAbort(_, _, _)
StopEachAbort(st, names, outs) ==
  IF names = <<>> THEN st
  ELSE LET r == stop_tunnel(st, Head(names), outs[Head(names)])
       IN  IF r.ret THEN StopEachAbort(r.st, Tail(names), outs) ELSE r.st

RECURSIVE StopEach(_, _, _)
StopEach(st, names, outs) ==
  IF names = <<>> THEN st
  ELSE StopEach(stop_tunnel(st, Head(names), outs[Head(names)]).st, Tail(names), outs)
stop_all_tunnels(st, outs) == StopEach(st, SeqOfSet(DOMAIN st.tunnels), outs)

\* the service state a call starts from, and the state after it
ServiceState ==
  [tunnels |-> tunnels, live |-> live, nextHandle |-> nextHandle,
   requests |-> <<>>, granted |-> <<>>, disconnects |-> <<>>]
Installed(st) ==
  /\ tunnels' = st.tunnels
  /\ live' = st.live
  /\ nextHandle' = st.nextHandle

TunnelInit ==
  /\ tunnels = NoTunnels
  /\ live = {}
  /\ nextHandle = 1
  /\ lastCall = NoCall

StartTunnel ==
  /\ UNCHANGED notTunnelVars
  /\ nextHandle <= MaxHandles
  /\ \E port \in Ports, name \in TunnelNames, protocol \in Protocols, fallback \in BOOLEAN,
        out1 \in ConnectOutcomes :
     \E outD \in (IF name \in DOMAIN tunnels THEN DisconnectOutcomes ELSE {"ok"}),
        out2 \in (IF out1 = "plan_limit" THEN ConnectOutcomes ELSE {"ok"}) :
       LET r == start_tunnel(ServiceState, port, name, protocol, fallback, outD, out1, out2)
       IN  /\ Installed(r.st)
           /\ lastCall' =
                [op |-> "start", name |-> name, protocol |-> protocol, fallback |-> fallback,
                 replaced |-> IF name \in DOMAIN tunnels THEN tunnels[name].tunnel ELSE 0,
                 requests |-> r.st.requests,
                 outcomes |-> SubSeq(<<out1, out2>>, 1, Len(r.st.requests)),
                 granted |-> r.st.granted, disconnects |-> r.st.disconnects,
                 result |-> r.ret, returned |-> TRUE]

StopTunnel ==
  /\ UNCHANGED notTunnelVars
  /\ \E name \in TunnelNames :
     \E outD \in (IF name \in DOMAIN tunnels THEN DisconnectOutcomes ELSE {"ok"}) :
       LET r == stop_tunnel(ServiceState, name, outD)
       IN  /\ Installed(r.st)
           /\ lastCall' =
                [NoCall EXCEPT !.op = "stop", !.name = name, !.returned = r.ret,
                               !.disconnects = r.st.disconnects]

StopAllTunnels ==
  /\ UNCHANGED notTunnelVars
  /\ \E outs \in [TunnelNames -> DisconnectOutcomes] :
       (\A n \in TunnelNames \ DOMAIN tunnels : outs[n] = "ok") /\
       LET st == stop_all_tunnels(ServiceState, outs)
       IN  /\ Installed(st)
           /\ lastCall' = [NoCall EXCEPT !.op = "stop_all", !.disconnects = st.disconnects]

TunnelNext == StartTunnel \/ StopTunnel \/ StopAllTunnels

\* C9: start_tunnel(port, name, "tcp", fallback_to_http) whose TCP request the
\* provider rejects: if the rejection is for the plan's limits and
\* fallback_to_http is set, exactly one further request is made, for "http";
\* when the provider grants it, its URL is returned and the tunnel is recorded
\* under name with protocol "http" (when it does not, the call returns None).
\* Without fallback_to_http, or on any other rejection, there is no further
\* request and the call returns None.
FallbackOnce ==
  (lastCall.op = "start" /\ lastCall.protocol = "tcp" /\ lastCall.outcomes[1] # "ok") =>
    IF lastCall.fallback /\ lastCall.outcomes[1] = "plan_limit"
    THEN /\ lastCall.requests = <<"tcp", "http">>
         /\ IF lastCall.outcomes[2] = "ok"
            THEN /\ lastCall.granted # <<>>
                 /\ lastCall.result = lastCall.granted[1]
                 /\ lastCall.result.scheme = "http"
                 /\ lastCall.name \in DOMAIN tunnels
                 /\ tunnels[lastCall.name].protocol = "http"
                 /\ tunnels[lastCall.name].url = lastCall.result
            ELSE lastCall.result = NoUrl
    ELSE /\ lastCall.requests = <<"tcp">>
         /\ lastCall.result = NoUrl

\* a TCP request was rejected for the plan's limits and the HTTP tunnel was recorded
FallbackOnceWitness ==
  /\ lastCall.op = "start"
  /\ lastCall.protocol = "tcp"
  /\ lastCall.fallback
  /\ lastCall.outcomes = <<"plan_limit", "ok">>
  /\ lastCall.name \in DOMAIN tunnels
  /\ tunnels[lastCall.name].protocol = "http"

\* C10: after start_tunnel under a name that held a tunnel, that tunnel is
\* disconnected at the provider (and the registry holds one entry for the name).
OldTunnelStopped ==
  (lastCall.op = "start" /\ lastCall.replaced # 0) => lastCall.replaced \notin live

\* C11: stop_tunnel(name) for a name that is not in the registry returns False,
\* makes no provider call and leaves the registry (and the provider's tunnels)
\* as they were.
StopAbsentIsNoOp ==
  [][(lastCall'.op = "stop" /\ lastCall'.name \notin DOMAIN tunnels) =>
       /\ ~lastCall'.returned
       /\ lastCall'.disconnects = <<>>
       /\ tunnels' = tunnels
       /\ live' = live]_tunnelVars

\* stop_tunnel returned False without a provider call while the registry held
\* a tunnel under the other name
StopAbsentWitness ==
  /\ lastCall.op = "stop"
  /\ ~lastCall.returned
  /\ lastCall.disconnects = <<>>
  /\ DOMAIN tunnels = TunnelNames \ {lastCall.name}

\* C12: stop_all_tunnels() asks the provider to disconnect every registered
\* tunnel, once each, whether or not an earlier disconnect failed; with an
\* empty registry it does nothing.
StopAllAttemptsEach ==
  [][lastCall'.op = "stop_all" =>
       /\ {lastCall'.disconnects[i] : i \in DOMAIN lastCall'.disconnects}
            = {tunnels[n].tunnel : n \in DOMAIN tunnels}
       /\ Len(lastCall'.disconnects) = Cardinality(DOMAIN tunnels)]_tunnelVars

\* the first disconnect failed (its tunnel is still open) and the second was
\* still attempted
StopAllAttemptsEachWitness ==
  /\ lastCall.op = "stop_all"
  /\ Len(lastCall.disconnects) = 2
  /\ lastCall.disconnects[1] \in live

\* the tunnels the registry refers to
Registered == {tunnels[n].tunnel : n \in DOMAIN tunnels}

\* C36: the registry and the provider agree: a tunnel is open at the provider
\* exactly when it is the tunnel of one, and only one, registry entry.
RegistryMatchesProvider ==
  /\ live = Registered
  /\ \A n, m \in DOMAIN tunnels : tunnels[n].tunnel = tunnels[m].tunnel => n = m

\* what holds: every registry entry refers to a tunnel of its own that is open
\* at the provider
RegistryWithinProvider ==
  /\ Registered \subseteq live
  /\ \A n, m \in DOMAIN tunnels : tunnels[n].tunnel = tunnels[m].tunnel => n = m

(***************************************************************************)
(* The video channel.  Time is counted in ticks; the server runs at        *)
(* FrameTicks ticks per frame.  time.time() is far above frame_time when   *)
(* the server starts, so the clock starts at StartTime >= FrameTicks with  *)
(* last_frame_time = 0.                                                    *)
(***************************************************************************)
Conns == {"A", "B"}
FrameTicks == 2
StartTime == FrameTicks
MaxTime == 5

VideoInit ==
  /\ now = StartTime
  /\ running = TRUE
  /\ last_frame_time = 0
  /\ frame_time = FrameTicks
  /\ connections = <<>>
  /\ sockOpen = [c \in Conns |-> FALSE]
  /\ acceptPc = "accept"
  /\ accepted = "A"
  /\ hPc = [c \in Conns |-> "none"]
  /\ current_time = [c \in Conns |-> 0]
  /\ ownLast = [c \in Conns |-> 0]

Tick ==
  /\ UNCHANGED notVideoVars
  /\ now < MaxTime
  /\ now' = now + 1
  /\ UNCHANGED <<running, last_frame_time, frame_time, connections, sockOpen, acceptPc,
                 accepted, hPc, current_time, ownLast>>

\* _accept_connections: accept() returns peer c; its handler thread is started
Accept(c) ==
  /\ UNCHANGED notVideoVars
  /\ acceptPc = "accept"
  /\ running
  /\ hPc[c] = "none"
  /\ sockOpen' = [sockOpen EXCEPT ![c] = TRUE]
  /\ hPc' = [hPc EXCEPT ![c] = "loop"]
  /\ accepted' = c
  /\ acceptPc' = "append"
  /\ UNCHANGED <<now, running, last_frame_time, frame_time, connections, current_time, ownLast>>

\* _accept_connections: self.connections.append(client_socket)
AcceptAppend ==
  /\ UNCHANGED notVideoVars
  /\ acceptPc = "append"
  /\ connections' = Append(connections, accepted)
  /\ acceptPc' = "accept"
  /\ UNCHANGED <<now, running, last_frame_time, frame_time, sockOpen, accepted, hPc,
                 current_time, ownLast>>

\* _accept_connections: the while condition fails once the server is stopped
AcceptExit ==
  /\ UNCHANGED notVideoVars
  /\ acceptPc = "accept"
  /\ ~running
  /\ acceptPc' = "done"
  /\ UNCHANGED <<now, running, last_frame_time, frame_time, connections, sockOpen, accepted,
                 hPc, current_time, ownLast>>

\* the pacing test against a clock of the connection's own
PaceOwn(c, t) == t - ownLast[c] < frame_time

\* current_time - self.last_frame_time < self.frame_time
Pace(c, t) == t - last_frame_time < frame_time

\* _handle_client: the top of the while loop and the frame-rate test
LoopTop(c) ==
  /\ UNCHANGED notVideoVars
  /\ hPc[c] = "loop"
  /\ IF ~running
     THEN /\ hPc' = [hPc EXCEPT ![c] = "finally"]
          /\ UNCHANGED current_time
     ELSE /\ current_time' = [current_time EXCEPT ![c] = now]
          /\ hPc' = [hPc EXCEPT ![c] = IF Pace(c, now) THEN "sleep" ELSE "capture"]
  /\ UNCHANGED <<now, running, last_frame_time, frame_time, connections, sockOpen, acceptPc,
                 accepted, ownLast>>

\* time.sleep(0.001); continue -- and time.sleep(0.1); continue after a failed capture
Sleep(c) ==
  /\ UNCHANGED notVideoVars
  /\ hPc[c] \in {"sleep", "backoff"}
  /\ hPc' = [hPc EXCEPT ![c] = "loop"]
  /\ UNCHANGED <<now, running, last_frame_time, frame_time, connections, sockOpen, acceptPc,
                 accepted, current_time, ownLast>>

\* capture_screen() and the encoding: a frame, or None
Capture(c) ==
  /\ UNCHANGED notVideoVars
  /\ hPc[c] = "capture"
  /\ \E ok \in BOOLEAN : hPc' = [hPc EXCEPT ![c] = IF ok THEN "send" ELSE "backoff"]
  /\ UNCHANGED <<now, running, last_frame_time, frame_time, connections, sockOpen, acceptPc,
                 accepted, current_time, ownLast>>

\* sendall(message_size + data) succeeds; self.last_frame_time = current_time
SendFrame(c) ==
  /\ UNCHANGED notVideoVars
  /\ hPc[c] = "send"
  /\ sockOpen[c]
  /\ last_frame_time' = current_time[c]
  /\ ownLast' = [ownLast EXCEPT ![c] = current_time[c]]
  /\ hPc' = [hPc EXCEPT ![c] = "loop"]
  /\ UNCHANGED <<now, running, frame_time, connections, sockOpen, acceptPc, accepted,
                 current_time>>

\* sendall raises (the peer is gone, or stop() closed the socket)
SendFails(c) ==
  /\ UNCHANGED notVideoVars
  /\ hPc[c] = "send"
  /\ hPc' = [hPc EXCEPT ![c] = "finally"]
  /\ UNCHANGED <<now, running, last_frame_time, frame_time, connections, sockOpen, acceptPc,
                 accepted, current_time, ownLast>>

\* list.remove(x): the list without the first x
RECURSIVE Remove(_, _)
Remove(list, x) ==
  IF list = <<>> THEN <<>>
  ELSE IF Head(list) = x THEN Tail(list) ELSE <<Head(list)>> \o Remove(Tail(list), x)

\* finally: client_socket.close(); remove it from self.connections if it is there
Finally(c) ==
  /\ UNCHANGED notVideoVars
  /\ hPc[c] = "finally"
  /\ sockOpen' = [sockOpen EXCEPT ![c] = FALSE]
  /\ connections' = Remove(connections, c)
  /\ hPc' = [hPc EXCEPT ![c] = "done"]
  /\ UNCHANGED <<now, running, last_frame_time, frame_time, acceptPc, accepted, current_time,
                 ownLast>>

\* stop(): running = False, every connection of the list closed, the list emptied
ServerStop ==
  /\ UNCHANGED notVideoVars
  /\ running
  /\ running' = FALSE
  /\ sockOpen' = [c \in Conns |->
                    IF \E n \in DOMAIN connections : connections[n] = c THEN FALSE ELSE sockOpen[c]]
  /\ connections' = <<>>
  /\ UNCHANGED <<now, last_frame_time, frame_time, acceptPc, accepted, hPc, current_time,
                 ownLast>>

VideoNext ==
  \/ Tick
  \/ AcceptAppend
  \/ AcceptExit
  \/ ServerStop
  \/ \E c \in Conns : Accept(c)
  \/ \E c \in Conns : LoopTop(c)
  \/ \E c \in Conns : Sleep(c)
  \/ \E c \in Conns : Capture(c)
  \/ \E c \in Conns : SendFrame(c)
  \/ \E c \in Conns : SendFails(c)
  \/ \E c \in Conns : Finally(c)

\* C1: each connection is paced by its own clock at the configured rate: a
\* handler skips a cycle only while less than frame_time has passed since the
\* last frame sent on its own connection (a frame sent on the other connection
\* does not delay its next frame), and it sends a frame only when frame_time has
\* passed since then (the other connection does not make it send sooner).
PacedIndependently ==
  \A c \in Conns :
    /\ hPc[c] = "sleep" => PaceOwn(c, current_time[c])
    /\ hPc[c] \in {"capture", "send"} => ~PaceOwn(c, current_time[c])

\* C20: once the handler of a video connection has terminated, the connection
\* is not a member of StreamServer.connections, so that the length of the list
\* is the number of video connections whose handler is alive.
EndedConnectionNotListed ==
  /\ \A c \in Conns : hPc[c] = "done" => \A n \in DOMAIN connections : connections[n] # c
  /\ Len(connections) <= Cardinality({c \in Conns : hPc[c] \notin {"none", "done"}})

(***************************************************************************)
(* The video wire and the client's receive loop.                           *)
(*                                                                         *)
(* struct's "L" is the host's native unsigned long: 4 or 8 bytes, in the   *)
(* host's byte order.  An image is one of Images; its JPEG encoding is     *)
(* abbreviated to two bytes (a marker byte and the image), its pickle to   *)
(* the encoding between the PROTO and STOP opcodes.                        *)
(***************************************************************************)
Images == {1, 2}
Platforms == [size : {4, 8}, order : {"little", "big"}]
JPEG_MARKER == 216
PICKLE_PROTO == 128
PICKLE_STOP == 46
MaxFrames == 2
MaxPacket == 3
\* a length no stream of the model reaches: the value of a prefix with a byte set
\* above its three low-order bytes
HugeLength == 256 * 256 * 256

Reverse(seq) == [n \in 1..Len(seq) |-> seq[Len(seq) + 1 - n]]
\* the n-byte big-endian encoding of v < 2^24
BigEndian(v, n) ==
  [k \in 1..n |-> IF k = n THEN v % 256
                  ELSE IF k = n - 1 THEN (v \div 256) % 256
                  ELSE IF k = n - 2 THEN (v \div 65536) % 256
                  ELSE 0]
\* the value of big-endian bytes
FromBigEndian(bytes) ==
  LET n == Len(bytes)
  IN  IF \E k \in 1..(n - 3) : bytes[k] # 0 THEN HugeLength
      ELSE bytes[n] + 256 * bytes[n - 1] + 65536 * bytes[n - 2]

\* struct.pack("L", v) and struct.unpack("L", bytes)[0] on a host
StructPackL(host, v) ==
  IF host.order = "big" THEN BigEndian(v, host.size) ELSE Reverse(BigEndian(v, host.size))
StructUnpackL(host, bytes) ==
  IF host.order = "big" THEN FromBigEndian(bytes) ELSE FromBigEndian(Reverse(bytes))
\* struct.calcsize("L")
CalcSizeL(host) == host.size

\* cv2.imencode('.jpg', frame) and cv2.imdecode (None, here 0, for bytes that are no image)
ImEncode(img) == <<JPEG_MARKER, img>>
ImDecode(bytes) ==
  IF Len(bytes) = 2 /\ bytes[1] = JPEG_MARKER /\ bytes[2] \in Images THEN bytes[2] ELSE 0
\* pickle.dumps and pickle.loads ([ok, value]; ok = FALSE: it raises)
PickleDumps(bytes) == <<PICKLE_PROTO>> \o bytes \o <<PICKLE_STOP>>
PickleLoads(bytes) ==
  IF Len(bytes) >= 2 /\ bytes[1] = PICKLE_PROTO /\ bytes[Len(bytes)] = PICKLE_STOP
  THEN [ok |-> TRUE, value |-> SubSeq(bytes, 2, Len(bytes) - 1)]
  ELSE [ok |-> FALSE, value |-> <<>>]

\* one frame as the wire format has it: a 4-byte big-endian length, then the payload
WireFrame(img) == BigEndian(Len(ImEncode(img)), 4) \o ImEncode(img)
\* one frame as _handle_client writes it on a host: struct.pack("L", len(data)) + data,
\* data the pickle of the encoded frame
ServerFrame(host, img) ==
  StructPackL(host, Len(PickleDumps(ImEncode(img)))) \o PickleDumps(ImEncode(img))

Writers == {[kind |-> "wire", platform |-> h] : h \in {[size |-> 4, order |-> "big"]}}
           \cup {[kind |-> "server", platform |-> h] : h \in Platforms}
RECURSIVE VideoStream(_, _)
VideoStream(w, imgs) ==
  IF imgs = <<>> THEN <<>>
  ELSE (IF w.kind = "wire" THEN WireFrame(Head(imgs)) ELSE ServerFrame(w.platform, Head(imgs)))
       \o VideoStream(w, Tail(imgs))

\* what reaches the client when the network damages the first frame of a stream
\* the server wrote: "length" lowers the low-order byte of its length prefix by
\* one, "payload" clears the last byte of its pickle, "image" clears the first
\* byte of the JPEG inside the pickle
Corruptions == {"none", "length", "payload", "image"}
Corrupt(w, stream, kind) ==
  LET n == CalcSizeL(w.platform)
      low == IF w.platform.order = "big" THEN n ELSE 1
      size == StructUnpackL(w.platform, SubSeq(stream, 1, n))
  IN  CASE kind = "length" -> [stream EXCEPT ![low] = @ - 1]
        [] kind = "payload" -> [stream EXCEPT ![n + size] = 0]
        [] kind = "image" -> [stream EXCEPT ![n + 2] = 0]
        [] OTHER -> stream

\* what the callback does when it is called for the n-th time
CallbackOutcome(faults, n) == IF n \in DOMAIN faults THEN faults[n] ELSE "ok"
CallbackOutcomes == {"ok", "error", "connection_error"}

\* _receive_frames from the point where bytes were added to self.data up to the
\* next recv: [data, pc, msg_size, delivered].  delivered are the frames the
\* callback was called with.  An exception other than ConnectionError is logged
\* and the outer loop comes round; ConnectionError breaks out of it ("teardown").
RECURSIVE Drain(_, _, _, _, _, _)
Drain(host, buf, pc, size, out, faults) ==
  IF pc = "size"
  THEN IF Len(buf) < CalcSizeL(host)
       THEN [data |-> buf, pc |-> pc, msg_size |-> size, delivered |-> out]
       ELSE Drain(host, SubSeq(buf, CalcSizeL(host) + 1, Len(buf)), "payload",
                  StructUnpackL(host, SubSeq(buf, 1, CalcSizeL(host))), out, faults)
  ELSE IF Len(buf) < size
       THEN [data |-> buf, pc |-> pc, msg_size |-> size, delivered |-> out]
       ELSE LET frame_data == SubSeq(buf, 1, size)
                rest == SubSeq(buf, size + 1, Len(buf))
                encoded_frame == PickleLoads(frame_data)
                called == Append(out, ImDecode(encoded_frame.value))
            IN  IF encoded_frame.ok
                THEN IF CallbackOutcome(faults, Len(called)) = "connection_error"
                     THEN [data |-> rest, pc |-> "teardown", msg_size |-> size,
                           delivered |-> called]
                     ELSE Drain(host, rest, "size", size, called, faults)
                ELSE \* pickle.loads raised: logged, the loop goes on
                     Drain(host, rest, "size", size, out, faults)

ClientInit ==
  /\ frames \in SeqsUpTo(Images, MaxFrames)
  /\ writer \in Writers
  /\ platform \in Platforms
  /\ corruption \in IF writer.kind = "server" /\ writer.platform = platform /\ frames # <<>>
                    THEN Corruptions ELSE {"none"}
  /\ vidWire = Corrupt(writer, VideoStream(writer, frames), corruption)
  /\ self_data = <<>>
  /\ rPc = "size"
  /\ msg_size = 0
  /\ delivered = <<>>
  /\ cliRunning = TRUE
  /\ callbackFaults \in [1..Len(frames) -> CallbackOutcomes]
  /\ recvFaults = {}
  /\ client_socket = "open"
  /\ command_socket = "open"

\* recv(4096) returns n >= 1 bytes, in either inner loop
ClientRecv ==
  /\ UNCHANGED notClientVars
  /\ rPc \in {"size", "payload"}
  /\ vidWire # <<>>
  /\ \E n \in 1..Min(MaxPacket, Len(vidWire)) :
       LET r == Drain(platform, self_data \o SubSeq(vidWire, 1, n), rPc, msg_size, delivered,
                      callbackFaults)
       IN  /\ vidWire' = SubSeq(vidWire, n + 1, Len(vidWire))
           /\ self_data' = r.data
           /\ rPc' = r.pc
           /\ msg_size' = r.msg_size
           /\ delivered' = r.delivered
  /\ UNCHANGED <<frames, writer, platform, corruption, cliRunning, callbackFaults, recvFaults,
                 client_socket, command_socket>>

\* recv returns b"": ConnectionError is raised, caught, break
ClientRecvEof ==
  /\ UNCHANGED notClientVars
  /\ rPc \in {"size", "payload"}
  /\ vidWire = <<>>
  /\ rPc' = "teardown"
  /\ recvFaults' = recvFaults \cup {"eof"}
  /\ UNCHANGED <<frames, writer, platform, corruption, vidWire, self_data, msg_size, delivered,
                 cliRunning, callbackFaults, client_socket, command_socket>>

\* recv raises a ConnectionError (the connection was reset): break; what was
\* in flight is lost
ClientRecvConnectionError ==
  /\ UNCHANGED notClientVars
  /\ rPc \in {"size", "payload"}
  /\ rPc' = "teardown"
  /\ recvFaults' = recvFaults \cup {"connection_error"}
  /\ vidWire' = <<>>
  /\ UNCHANGED <<frames, writer, platform, corruption, self_data, msg_size, delivered,
                 cliRunning, callbackFaults, client_socket, command_socket>>

\* recv raises another OSError (a timeout of the connection, no route to the
\* host): `except Exception`, logged, time.sleep(0.1)
ClientRecvOsError ==
  /\ UNCHANGED notClientVars
  /\ rPc \in {"size", "payload"}
  /\ rPc' = "backoff"
  /\ recvFaults' = recvFaults \cup {"os_error"}
  /\ vidWire' = <<>>
  /\ UNCHANGED <<frames, writer, platform, corruption, self_data, msg_size, delivered,
                 cliRunning, callbackFaults, client_socket, command_socket>>

\* after the sleep the outer loop comes round: `while self.running`, then the
\* length prefix, with self.data as it is
ClientBackoff ==
  /\ UNCHANGED notClientVars
  /\ rPc = "backoff"
  /\ rPc' = IF cliRunning THEN "size" ELSE "teardown"
  /\ UNCHANGED <<frames, writer, platform, corruption, vidWire, self_data, msg_size, delivered,
                 cliRunning, callbackFaults, recvFaults, client_socket, command_socket>>

\* after the loop: self.disconnect()
ClientDisconnect ==
  /\ UNCHANGED notClientVars
  /\ rPc = "teardown"
  /\ rPc' = "done"
  /\ cliRunning' = FALSE
  /\ client_socket' = "none"
  /\ command_socket' = "none"
  /\ UNCHANGED <<frames, writer, platform, corruption, vidWire, self_data, msg_size, delivered,
                 callbackFaults, recvFaults>>

ClientNext ==
  \/ ClientRecv
  \/ ClientRecvEof
  \/ ClientRecvConnectionError
  \/ ClientRecvOsError
  \/ ClientBackoff
  \/ ClientDisconnect

\* the receive thread runs, and a recv on a connection that has bytes in
\* flight, or has failed, returns
ClientFairness ==
  /\ WF_clientVars(ClientDisconnect)
  /\ WF_clientVars(ClientBackoff)
  /\ WF_clientVars(ClientRecv \/ ClientRecvEof \/ ClientRecvConnectionError \/ ClientRecvOsError)

\* C2: for frames f1..fn written in the length-prefix format (a 4-byte
\* big-endian length, then the payload) and every splitting of the stream into
\* reads, the callback has been called exactly with f1..fn, in order, when the
\* stream ends.
FramesDeliveredInOrder ==
  (rPc = "done" /\ writer.kind = "wire" /\ recvFaults = {"eof"}
     /\ \A n \in DOMAIN callbackFaults : callbackFaults[n] = "ok") =>
    delivered = frames

\* a stream written by _handle_client on a host whose unsigned long is the
\* client's is delivered frame by frame, whatever the reads
SameHostDelivered ==
  (rPc = "done" /\ writer.kind = "server" /\ writer.platform = platform /\ corruption = "none"
     /\ recvFaults = {"eof"}
     /\ \A n \in DOMAIN callbackFaults : callbackFaults[n] = "ok") =>
    delivered = frames

\* C21: every frame _handle_client writes is a 4-byte big-endian length followed
\* by that many payload bytes, and the client reads a prefix of 4 bytes as a
\* big-endian number, whatever the native unsigned long of either host.
FourByteBigEndianPrefix ==
  /\ (writer.kind = "server" /\ Len(vidWire) < Len(VideoStream(writer, frames))) =>
       \A i \in DOMAIN frames :
         LET data == PickleDumps(ImEncode(frames[i]))
         IN  ServerFrame(writer.platform, frames[i]) = BigEndian(Len(data), 4) \o data
  /\ rPc = "payload" =>
       /\ CalcSizeL(platform) = 4
       /\ StructUnpackL(platform, BigEndian(msg_size, 4)) = msg_size

TornDown == ~cliRunning /\ client_socket = "none" /\ command_socket = "none"

\* C23: once recv has reported that the peer closed the connection, or has
\* raised any socket error, the receive loop ends and disconnect() runs:
\* eventually running is false and both sockets are closed and cleared.
RecvFailureTearsDown ==
  (recvFaults # {}) ~> TornDown

\* what holds: teardown follows the end of the stream and a ConnectionError
ConnectionFailureTearsDown ==
  (recvFaults \cap {"eof", "connection_error"} # {}) ~> TornDown

\* C30: whatever the callback raises, the receive loop goes on and stays
\* aligned: when the stream has ended, the callback has been called with every
\* frame, in order.
CallbackFailureIsolated ==
  (rPc = "done" /\ writer.kind = "server" /\ writer.platform = platform /\ corruption = "none"
    
     /\ recvFaults \subseteq {"eof"}) =>
    delivered = frames

\* what holds: an exception of the callback that is no ConnectionError is
\* logged and the frames after it are delivered
OrdinaryCallbackFailureIsolated ==
  (rPc = "done" /\ writer.kind = "server" /\ writer.platform = platform /\ corruption = "none"
    
     /\ recvFaults \subseteq {"eof"}
     /\ \A n \in DOMAIN callbackFaults : callbackFaults[n] # "connection_error") =>
    delivered = frames

\* C31: a frame of the video stream whose length prefix or payload does not
\* decode ends the receive loop: once the damaged frame has been taken from the
\* stream, the loop does not come back to reading a length prefix.
CorruptFrameFatal ==
  (corruption # "none" /\ writer.platform = platform /\ recvFaults = {} /\ rPc = "size") =>
    Len(vidWire) + Len(self_data) = Len(VideoStream(writer, frames))

\* what the loop does: the frame after a payload that does not unpickle is
\* delivered, and an image that does not decode is handed to the callback as None
CorruptPayloadSkipped ==
  (rPc = "done" /\ writer.platform = platform /\ recvFaults = {"eof"}
     /\ \A n \in DOMAIN callbackFaults : callbackFaults[n] = "ok") =>
    /\ corruption = "payload" => delivered = Tail(frames)
    /\ corruption = "image" => delivered = <<0>> \o Tail(frames)

(***************************************************************************)
(* The tunnel URL parsers: StreamClient._parse_ngrok_url and               *)
(* NgrokService.extract_host_port.  A URL is a sequence of characters; the *)
(* Python string operations the parsers use are computed on it.            *)
(***************************************************************************)
Contains(str, sub) ==
  \E i \in 1..(Len(str) - Len(sub) + 1) : SubSeq(str, i, i + Len(sub) - 1) = sub

\* str.lower()
Lower(str) ==
  [i \in DOMAIN str |->
     CASE str[i] = "H" -> "h" [] str[i] = "T" -> "t" [] str[i] = "P" -> "p"
       [] str[i] = "S" -> "s" [] str[i] = "C" -> "c" [] OTHER -> str[i]]

\* the places where sub occurs in str
Occurrences(str, sub) ==
  {i \in 1..(Len(str) - Len(sub) + 1) : SubSeq(str, i, i + Len(sub) - 1) = sub}
MinOf(S) == CHOOSE x \in S : \A y \in S : x <= y
MaxOf(S) == CHOOSE x \in S : \A y \in S : x >= y

\* str.split(sep, 1) and str.rsplit(sep, 1) where sep occurs in str
Split1(str, sep) ==
  LET i == MinOf(Occurrences(str, sep))
  IN  <<SubSeq(str, 1, i - 1), SubSeq(str, i + Len(sep), Len(str))>>
RSplit1(str, sep) ==
  LET i == MaxOf(Occurrences(str, sep))
  IN  <<SubSeq(str, 1, i - 1), SubSeq(str, i + Len(sep), Len(str))>>

\* str.split(sep): every piece
RECURSIVE Split(_, _)
Split(str, sep) ==
  IF Contains(str, sep)
  THEN <<Split1(str, sep)[1]>> \o Split(Split1(str, sep)[2], sep)
  ELSE <<str>>

\* int(str): [raised, value]
Digits == {"0", "1", "2", "3", "4", "5", "8"}
DigitValue(ch) ==
  CASE ch = "0" -> 0 [] ch = "1" -> 1 [] ch = "2" -> 2 [] ch = "3" -> 3
    [] ch = "4" -> 4 [] ch = "5" -> 5 [] ch = "8" -> 8
RECURSIVE DecimalValue(_)
DecimalValue(str) ==
  IF str = <<>> THEN 0
  ELSE 10 * DecimalValue(SubSeq(str, 1, Len(str) - 1)) + DigitValue(str[Len(str)])
PyIntOf(str) ==
  IF str # <<>> /\ \A i \in DOMAIN str : str[i] \in Digits
  THEN [raised |-> FALSE, value |-> DecimalValue(str)]
  ELSE [raised |-> TRUE, value |-> 0]

\* the tuples the parsers return; None is a flag beside the value
HostPort(host, port) == [hostNone |-> FALSE, host |-> host, portNone |-> FALSE, port |-> port]
HostNoPort(host) == [hostNone |-> FALSE, host |-> host, portNone |-> TRUE, port |-> 0]
NoneNone == [hostNone |-> TRUE, host |-> <<>>, portNone |-> TRUE, port |-> 0]

\* is_http without the test for 'https://'
IsHttpPlainOnly(str) == Contains(Lower(str), <<"h", "t", "t", "p", ":", "/", "/">>)

\* 'http://' in url.lower() or 'https://' in url.lower()
IsHttp(str) ==
  \/ Contains(Lower(str), <<"h", "t", "t", "p", ":", "/", "/">>)
  \/ Contains(Lower(str), <<"h", "t", "t", "p", "s", ":", "/", "/">>)

\* StreamClient._parse_ngrok_url(url)
parse_ngrok_url(str) ==
  LET is_http == IsHttp(str)
      rest == IF Contains(str, <<":", "/", "/">>) THEN Split1(str, <<":", "/", "/">>)[2] ELSE str
      pieces == RSplit1(rest, <<":">>)
      port == PyIntOf(pieces[2])
  IN  IF Contains(rest, <<":">>)
      THEN IF port.raised THEN NoneNone ELSE HostPort(pieces[1], port.value)
      ELSE IF is_http THEN HostPort(rest, 80) ELSE NoneNone

\* NgrokService.extract_host_port(url)
extract_host_port(str) ==
  LET rest == IF Contains(str, <<":", "/", "/">>) THEN Split(str, <<":", "/", "/">>)[2] ELSE str
      pieces == Split(rest, <<":">>)
      port == PyIntOf(pieces[2])
  IN  IF Contains(rest, <<":">>)
      THEN IF Len(pieces) # 2 \/ port.raised THEN NoneNone   \* unpacking or int() raised
           ELSE HostPort(pieces[1], port.value)
      ELSE HostNoPort(rest)

\* the URLs handed to the parsers: scheme://host[:port][/]
Schemes ==
  {<<>>, <<"t", "c", "p", ":", "/", "/">>, <<"h", "t", "t", "p", ":", "/", "/">>,
   <<"h", "t", "t", "p", "s", ":", "/", "/">>, <<"H", "T", "T", "P", "S", ":", "/", "/">>}
Hosts == {<<"a">>, <<"0", ".", "t", "c", "p", ".", "e", ".", "i", "o">>}
PortTexts == {<<>>, <<":", "8", "0">>, <<":", "1", "2", "3", "4", "5">>, <<":", "x">>, <<":">>}
Suffixes == {<<>>, <<"/">>}
Urls == [scheme : Schemes, host : Hosts, port : PortTexts, suffix : Suffixes]
UrlText(u) == u.scheme \o u.host \o u.port \o u.suffix

UrlIdle ==
  /\ url = [scheme |-> <<>>, host |-> <<"a">>, port |-> <<>>, suffix |-> <<>>]
  /\ urlParser = ""
  /\ urlResult = NoneNone

UrlInit ==
  /\ url \in Urls
  /\ urlParser = ""
  /\ urlResult = NoneNone

ParseNgrokUrl ==
  /\ UNCHANGED notUrlVars
  /\ urlParser = ""
  /\ urlParser' = "_parse_ngrok_url"
  /\ urlResult' = parse_ngrok_url(UrlText(url))
  /\ UNCHANGED url

ExtractHostPort ==
  /\ UNCHANGED notUrlVars
  /\ urlParser = ""
  /\ urlParser' = "extract_host_port"
  /\ urlResult' = extract_host_port(UrlText(url))
  /\ UNCHANGED url

UrlNext == ParseNgrokUrl \/ ExtractHostPort

\* the URL forms the claims speak of
IsTcpUrl(u) == u.scheme = <<"t", "c", "p", ":", "/", "/">>
IsHttpUrl(u) == Lower(u.scheme) \in {<<"h", "t", "t", "p", ":", "/", "/">>, <<"h", "t", "t", "p", "s", ":", "/", "/">>}
HasPort(u) == u.port # <<>> /\ ~PyIntOf(Tail(u.port)).raised
NoPort(u) == u.port = <<>>
PlainUrl(u) == u.suffix = <<>>

\* C13: _parse_ngrok_url returns the host and the explicit port of
\* tcp://host:port, and for https://host without a port the host with the
\* default port (80, or 443), without error.
ParserReturnsHostPort ==
  (urlParser = "_parse_ngrok_url" /\ PlainUrl(url)) =>
    /\ (IsTcpUrl(url) /\ HasPort(url)) =>
         urlResult = HostPort(url.host, DecimalValue(Tail(url.port)))
    /\ (IsHttpUrl(url) /\ NoPort(url)) =>
         urlResult \in {HostPort(url.host, 80), HostPort(url.host, 443)}

\* tcp://0.tcp.e.io:12345 gave the host and 12345
ParserReturnsHostPortWitness ==
  /\ urlParser = "_parse_ngrok_url"
  /\ UrlText(url) = <<"t", "c", "p", ":", "/", "/", "0", ".", "t", "c", "p", ".", "e", ".", "i", "o",
                      ":", "1", "2", "3", "4", "5">>
  /\ urlResult = HostPort(url.host, 12345)

\* C14: a tunnel URL parser branches on the scheme: an http(s) URL without a
\* port parses with port 80, a tcp URL without a port fails (None, None).
ParserBranchesOnScheme ==
  (urlParser # "" /\ PlainUrl(url) /\ NoPort(url)) =>
    /\ IsHttpUrl(url) => urlResult = HostPort(url.host, 80)
    /\ IsTcpUrl(url) => urlResult = NoneNone

\* what holds of _parse_ngrok_url alone
ClientParserBranchesOnScheme ==
  (urlParser = "_parse_ngrok_url" /\ PlainUrl(url) /\ NoPort(url)) =>
    /\ IsHttpUrl(url) => urlResult = HostPort(url.host, 80)
    /\ IsTcpUrl(url) => urlResult = NoneNone

(***************************************************************************)
(* run_network_diagnostics(host, ports).  ping_host and check_port_open    *)
(* catch their own exceptions and answer with booleans; the network gives  *)
(* the answers.  The callers pass lists of distinct ports ([port, port+1]).*)
(* A recommendation is [kind, port]; port is 0 where the text names none.  *)
(***************************************************************************)
DiagPorts == {5000, 5001, 5002}
MaxPorts == 3

SameNetworkHint == [kind |-> "same_network", port |-> 0]
PortClosedHint(port) == [kind |-> "port_closed", port |-> port]
DisableFirewallHint == [kind |-> "disable_firewall", port |-> 0]
UseNgrokHint == [kind |-> "use_ngrok", port |-> 0]

NoReport ==
  [ping |-> [success |-> TRUE], ports |-> [q \in {} |-> TRUE],
   firewall_issues |-> FALSE, recommendations |-> <<>>]

\* the results dict before any probe
FreshResults == NoReport

\* the ping step
PingStep(r, ping_success) ==
  IF ~ping_success
  THEN [r EXCEPT !.ping = [success |-> FALSE],
                 !.recommendations = Append(@, SameNetworkHint),
                 !.firewall_issues = TRUE]
  ELSE [r EXCEPT !.ping = [success |-> TRUE]]

\* a loop body that gives the hint but leaves the flag alone
PortStepNoFlag(r, port, port_open) ==
  LET r1 == [r EXCEPT !.ports = [q \in DOMAIN @ \cup {port} |-> IF q = port THEN port_open ELSE @[q]]]
  IN  IF ~port_open
      THEN [r1 EXCEPT !.recommendations = Append(@, PortClosedHint(port))]
      ELSE r1

\* the body of `for port in ports`
PortStep(r, port, port_open) ==
  LET r1 == [r EXCEPT !.ports = [q \in DOMAIN @ \cup {port} |-> IF q = port THEN port_open ELSE @[q]]]
  IN  IF ~port_open
      THEN [r1 EXCEPT !.recommendations = Append(@, PortClosedHint(port)),
                      !.firewall_issues = TRUE]
      ELSE r1

RECURSIVE PortLoop(_, _, _)
PortLoop(r, ports, open) ==
  IF ports = <<>> THEN r
  ELSE PortLoop(PortStep(r, Head(ports), open[Head(ports)]), Tail(ports), open)

\* general recommendations given whatever the flag
GeneralStepAlways(r) ==
  [r EXCEPT !.recommendations = @ \o <<DisableFirewallHint, UseNgrokHint>>]

\* the general recommendations
GeneralStep(r) ==
  IF r.firewall_issues
  THEN [r EXCEPT !.recommendations = @ \o <<DisableFirewallHint, UseNgrokHint>>]
  ELSE r

run_network_diagnostics(ports, ping_success, open) ==
  GeneralStep(PortLoop(PingStep(FreshResults, ping_success), ports, open))

\* lists of distinct ports
PortLists ==
  {l \in SeqsUpTo(DiagPorts, MaxPorts) : \A i, j \in DOMAIN l : i # j => l[i] # l[j]}

NoProbe == [ports |-> <<>>, ping_success |-> TRUE, open |-> [q \in DiagPorts |-> TRUE], made |-> FALSE]

DiagIdle ==
  /\ probe = NoProbe
  /\ results = NoReport

DiagInit == DiagIdle

RunNetworkDiagnostics ==
  /\ UNCHANGED notDiagVars
  /\ \E ports \in PortLists, ping_success \in BOOLEAN :
     \E open \in {f \in [DiagPorts -> BOOLEAN] :
                    \A q \in DiagPorts : (\A i \in DOMAIN ports : ports[i] # q) => f[q]} :
       /\ probe' = [ports |-> ports, ping_success |-> ping_success, open |-> open, made |-> TRUE]
       /\ results' = run_network_diagnostics(ports, ping_success, open)

DiagNext == RunNetworkDiagnostics

Requested == {probe.ports[i] : i \in DOMAIN probe.ports}
AnyIssue == ~probe.ping_success \/ \E q \in Requested : ~probe.open[q]
CountOf(seq, x) == Cardinality({i \in DOMAIN seq : seq[i] = x})

\* C15: firewall_issues is true iff the ping failed or a requested port is
\* closed, and the ports map has one entry per requested port, true iff the
\* connect to that port succeeded.
FirewallFlagAndPorts ==
  probe.made =>
    /\ results.firewall_issues <=> AnyIssue
    /\ DOMAIN results.ports = Requested
    /\ \A q \in Requested : results.ports[q] <=> probe.open[q]

\* one port open, one closed, ping fine: {p1: true, p2: false} and the flag set
FirewallFlagAndPortsWitness ==
  /\ probe.made
  /\ probe.ping_success
  /\ probe.ports = <<5000, 5001>>
  /\ results.ports = (5000 :> TRUE) @@ (5001 :> FALSE)
  /\ results.firewall_issues

\* C16: the recommendations hold the same-network hint iff the ping failed, one
\* hint naming port N for each closed requested port N and none for any other
\* port, and the two general suggestions, last, iff there is any issue; nothing
\* else, so the list is empty when the ping succeeded and every port is open.
RecommendationsDerived ==
  probe.made =>
    LET recs == results.recommendations
        closed == {q \in Requested : ~probe.open[q]}
        general == IF AnyIssue THEN 2 ELSE 0
    IN  /\ CountOf(recs, SameNetworkHint) = (IF probe.ping_success THEN 0 ELSE 1)
        /\ \A q \in DiagPorts : CountOf(recs, PortClosedHint(q)) = (IF q \in closed THEN 1 ELSE 0)
        /\ Len(recs) = (IF probe.ping_success THEN 0 ELSE 1) + Cardinality(closed) + general
        /\ AnyIssue => SubSeq(recs, Len(recs) - 1, Len(recs)) = <<DisableFirewallHint, UseNgrokHint>>
        /\ ~AnyIssue => recs = <<>>

\* a failed ping, an open port and a closed one gave four recommendations
RecommendationsDerivedWitness ==
  /\ probe.made
  /\ ~probe.ping_success
  /\ probe.ports = <<5001, 5000>>
  /\ results.recommendations =
       <<SameNetworkHint, PortClosedHint(5000), DisableFirewallHint, UseNgrokHint>>

(***************************************************************************)
(* StreamServer.set_quality and StreamServer.set_fps_limit.  frame_time is *)
(* 1.0 / fps_limit; it is kept as the fraction num/den.                    *)
(***************************************************************************)
PyMax(a, b) == IF b > a THEN b ELSE a
PyMin(a, b) == IF b < a THEN b ELSE a
Reciprocal(n) == [num |-> 1, den |-> n]

\* a setter that stores what it is given
set_quality_as_given(q) == q

\* max(0, min(100, quality))
set_quality(q) == PyMax(0, PyMin(100, q))

\* a setter without the floor
set_fps_limit_as_given(fps) == [fps_limit |-> fps, frame_time |-> Reciprocal(fps)]

\* self.fps_limit = max(1, fps); self.frame_time = 1.0 / self.fps_limit
set_fps_limit(fps) ==
  LET limit == PyMax(1, fps)
  IN  [fps_limit |-> limit, frame_time |-> Reciprocal(limit)]

SampleQualities == {-5, 0, 1, 25, 50, 75, 99, 100, 101, 150}
SampleFps == {-3, 0, 1, 2, 5, 15, 30, 60}
NoSet == [op |-> "", arg |-> 0]

SettingInit ==
  /\ quality = 50
  /\ fps_limit = 30
  /\ frame_period = Reciprocal(30)
  /\ lastSet = NoSet

SettingIdle == SettingInit

SetQuality ==
  /\ UNCHANGED notSettingVars
  /\ \E q \in SampleQualities :
       /\ quality' = set_quality(q)
       /\ lastSet' = [op |-> "set_quality", arg |-> q]
  /\ UNCHANGED <<fps_limit, frame_period>>

SetFpsLimit ==
  /\ UNCHANGED notSettingVars
  /\ \E fps \in SampleFps :
       /\ fps_limit' = set_fps_limit(fps).fps_limit
       /\ frame_period' = set_fps_limit(fps).frame_time
       /\ lastSet' = [op |-> "set_fps_limit", arg |-> fps]
  /\ UNCHANGED quality

SettingNext == SetQuality \/ SetFpsLimit

\* C17: quality is within 0..100 in every state, and after set_quality(q) it is
\* q brought into that range: 0 below 0, 100 above 100, q itself otherwise.
QualityClamped ==
  /\ quality \in 0..100
  /\ lastSet.op = "set_quality" =>
       quality = (IF lastSet.arg < 0 THEN 0 ELSE IF lastSet.arg > 100 THEN 100 ELSE lastSet.arg)

\* set_quality(150) left 100 behind
QualityClampedWitness ==
  /\ lastSet = [op |-> "set_quality", arg |-> 150]
  /\ quality = 100

CmdConns == {"K", "L"}
serverVars == <<videoVars, stopVars>>

StopInit ==
  /\ cmdAcceptPc = "accept"
  /\ kPc = [k \in CmdConns |-> "none"]
  /\ kOpen = [k \in CmdConns |-> FALSE]

StopIdle == StopInit

\* _accept_commands: accept() returns peer k; its handler thread is started
AcceptCommand(k) ==
  /\ UNCHANGED notStopVars
  /\ cmdAcceptPc = "accept"
  /\ running
  /\ kPc[k] = "none"
  /\ kPc' = [kPc EXCEPT ![k] = "loop"]
  /\ kOpen' = [kOpen EXCEPT ![k] = TRUE]
  /\ UNCHANGED cmdAcceptPc

\* _accept_commands: the while condition fails once the server is stopped
\* (accept on the closed listener raises, and the loop comes round)
CmdAcceptExit ==
  /\ UNCHANGED notStopVars
  /\ cmdAcceptPc = "accept"
  /\ ~running
  /\ cmdAcceptPc' = "done"
  /\ UNCHANGED <<kPc, kOpen>>

\* _handle_commands: `while self.running`, then into recv
CmdLoopTop(k) ==
  /\ UNCHANGED notStopVars
  /\ kPc[k] = "loop"
  /\ kPc' = [kPc EXCEPT ![k] = IF running THEN "recv" ELSE "finally"]
  /\ UNCHANGED <<cmdAcceptPc, kOpen>>

\* recv returns because the peer sent bytes, or closed, or the connection broke
CmdRecvReturns(k) ==
  /\ UNCHANGED notStopVars
  /\ kPc[k] = "recv"
  /\ \E answer \in {"data", "eof", "error"} :
       kPc' = [kPc EXCEPT ![k] = IF answer = "data" THEN "loop" ELSE "finally"]
  /\ UNCHANGED <<cmdAcceptPc, kOpen>>

\* finally: client_socket.close()
CmdFinally(k) ==
  /\ UNCHANGED notStopVars
  /\ kPc[k] = "finally"
  /\ kOpen' = [kOpen EXCEPT ![k] = FALSE]
  /\ kPc' = [kPc EXCEPT ![k] = "done"]
  /\ UNCHANGED cmdAcceptPc

StopNext ==
  \/ AcceptAppend
  \/ AcceptExit
  \/ ServerStop
  \/ CmdAcceptExit
  \/ \E c \in Conns : Accept(c)
  \/ \E c \in Conns : LoopTop(c)
  \/ \E c \in Conns : Sleep(c)
  \/ \E c \in Conns : Capture(c)
  \/ \E c \in Conns : SendFrame(c)
  \/ \E c \in Conns : SendFails(c)
  \/ \E c \in Conns : Finally(c)
  \/ \E k \in CmdConns : AcceptCommand(k)
  \/ \E k \in CmdConns : CmdLoopTop(k)
  \/ \E k \in CmdConns : CmdRecvReturns(k)
  \/ \E k \in CmdConns : CmdFinally(k)

\* every thread of the server that can take a step takes one; what the peers
\* send, and when, is theirs to choose
StopFairness ==
  /\ WF_serverVars(AcceptAppend)
  /\ WF_serverVars(AcceptExit)
  /\ WF_serverVars(CmdAcceptExit)
  /\ \A c \in Conns :
       /\ WF_serverVars(LoopTop(c))
       /\ WF_serverVars(Sleep(c))
       /\ WF_serverVars(Capture(c))
       /\ WF_serverVars(SendFrame(c) \/ SendFails(c))
       /\ WF_serverVars(Finally(c))
  /\ \A k \in CmdConns :
       /\ WF_serverVars(CmdLoopTop(k))
       /\ WF_serverVars(CmdFinally(k))

VideoThreadsEnded ==
  /\ acceptPc = "done"
  /\ \A c \in Conns : hPc[c] \in {"none", "done"}
CommandThreadsEnded ==
  /\ cmdAcceptPc = "done"
  /\ \A k \in CmdConns : kPc[k] \in {"none", "done"}

\* C19: after stop() every listener loop and every connection handler, video or
\* command, eventually terminates.
StopEndsEveryThread ==
  ~running ~> (VideoThreadsEnded /\ CommandThreadsEnded)

\* what holds: the two listener loops and the video handlers end after stop()
StopEndsVideoAndListeners ==
  ~running ~> (VideoThreadsEnded /\ cmdAcceptPc = "done")

(***************************************************************************)
(* StreamClient.connect, send_command and disconnect as the caller sees    *)
(* them: how connect resolves its arguments, the addresses it connects to, *)
(* and what send_command writes to the command socket.                     *)
(***************************************************************************)
NonePort == [isNone |-> TRUE, value |-> 0]
SomePort(n) == [isNone |-> FALSE, value |-> n]
NoAddress == [set |-> FALSE, host |-> <<>>, port |-> 0]
Address(h, p) == [set |-> TRUE, host |-> h, port |-> p]

\* `if ngrok_host and ngrok_port`: neither None, nor '' nor 0
ParsedTruthy(pair) ==
  /\ ~pair.hostNone /\ pair.host # <<>>
  /\ ~pair.portNone /\ pair.port # 0

\* connect taking port + 1 whatever command_port is
ResolvePlusOneAlways(h, p, cp) ==
  LET isUrl == Contains(h, <<":", "/", "/">>)
      use == isUrl /\ ParsedTruthy(parse_ngrok_url(h))
      host2 == IF use THEN parse_ngrok_url(h).host ELSE h
      port2 == IF use THEN parse_ngrok_url(h).port ELSE p
  IN  [host |-> host2, port |-> port2, command_port |-> port2 + 1]

\* the head of connect: the host, port and command port it goes on with
Resolve(h, p, cp) ==
  LET isUrl == Contains(h, <<":", "/", "/">>)
      use == isUrl /\ ParsedTruthy(parse_ngrok_url(h))
      host2 == IF use THEN parse_ngrok_url(h).host ELSE h
      port2 == IF use THEN parse_ngrok_url(h).port ELSE p
  IN  [host |-> host2, port |-> port2,
       command_port |-> IF cp.isNone THEN port2 + 1 ELSE cp.value]

\* the arguments of connect
ConnectHosts == {UrlText(u) : u \in {v \in Urls : v.host = <<"a">>}}
ConnectPorts == {5000}
CommandPorts == {NonePort, SomePort(7001)}
\* what the network does with the two socket.connect calls; a host that still
\* is the text of a URL names no machine (socket.gaierror)
ConnectOutcomesFor(h) ==
  IF Contains(h, <<":", "/", "/">>) THEN {"video_fails"}
  ELSE {"ok", "video_fails", "command_fails"}
NoConnect == [called |-> FALSE, host |-> <<>>, port |-> 0, command_port |-> NonePort,
              returned |-> FALSE]

\* what sendall wrote: the JSON text of a command, a text cut short, a newline
TextToken(j) == [kind |-> "text", text |-> j]
CutToken == [kind |-> "cut", text |-> MalformedJson]
NewlineToken == [kind |-> "newline", text |-> MalformedJson]
SendOutcomes == {"ok", "broken_pipe", "partial"}
SendSamples ==
  {create_key_press("a"), create_type_text("caf\\u00e9")}
MaxSends == 2
NoSend == [called |-> FALSE, command |-> NoCommand, connected |-> FALSE, outcome |-> "",
           before |-> <<>>, after |-> <<>>, returned |-> FALSE]

\* send_command without the newline
send_command_bare(isRunning, sock, wire, c, outcome) ==
  IF ~isRunning \/ sock = "none" THEN [returned |-> FALSE, wire |-> wire]
  ELSE CASE outcome = "ok" -> [returned |-> TRUE, wire |-> wire \o <<TextToken(to_json(c))>>]
         [] outcome = "partial" -> [returned |-> FALSE, wire |-> wire \o <<CutToken>>]
         [] OTHER -> [returned |-> FALSE, wire |-> wire]

\* StreamClient.send_command(command): [returned, wire]
send_command(isRunning, sock, wire, c, outcome) ==
  IF ~isRunning \/ sock = "none" THEN [returned |-> FALSE, wire |-> wire]
  ELSE CASE outcome = "ok" ->
              [returned |-> TRUE, wire |-> wire \o <<TextToken(to_json(c)), NewlineToken>>]
         [] outcome = "partial" -> [returned |-> FALSE, wire |-> wire \o <<CutToken>>]
         [] OTHER -> [returned |-> FALSE, wire |-> wire]

ConnIdle ==
  /\ self_host = <<>>
  /\ self_port = 0
  /\ connRunning = FALSE
  /\ connCommandSocket = "none"
  /\ videoAddr = NoAddress
  /\ commandAddr = NoAddress
  /\ connLast = NoConnect
  /\ connRefused = FALSE
  /\ sentWire = <<>>
  /\ sendLast = NoSend

ConnInit == ConnIdle

\* connect(host, port, command_port) on a client that is running: returns False
ConnectWhileRunning ==
  /\ UNCHANGED notConnVars
  /\ connRunning
  /\ connRefused' = TRUE
  /\ UNCHANGED <<self_host, self_port, connRunning, connCommandSocket, videoAddr,
                 commandAddr, connLast, sentWire, sendLast>>

\* connect(host, port, command_port) otherwise
Connect(h, p, cp) ==
  /\ UNCHANGED notConnVars
  /\ ~connRunning
  /\ LET r == Resolve(h, p, cp)
     IN  \E outcome \in ConnectOutcomesFor(r.host) :
           /\ self_host' = r.host
           /\ self_port' = r.port
           /\ videoAddr' = Address(r.host, r.port)
           /\ commandAddr' = IF outcome = "video_fails" THEN NoAddress
                             ELSE Address(r.host, r.command_port)
           /\ connRunning' = (outcome = "ok")
           /\ connCommandSocket' = IF outcome = "ok" THEN "open" ELSE "none"
           /\ connLast' = [called |-> TRUE, host |-> h, port |-> p, command_port |-> cp,
                           returned |-> (outcome = "ok")]
  /\ sentWire' = <<>>
  /\ connRefused' = FALSE
  /\ sendLast' = NoSend

\* send_command(command)
SendCommand(c, outcome) ==
  /\ UNCHANGED notConnVars
  /\ Len(sentWire) < 2 * MaxSends
  /\ LET r == send_command(connRunning, connCommandSocket, sentWire, c, outcome)
     IN  /\ sentWire' = r.wire
         /\ sendLast' = [called |-> TRUE, command |-> c,
                         connected |-> (connRunning /\ connCommandSocket # "none"),
                         outcome |-> IF connRunning /\ connCommandSocket # "none"
                                     THEN outcome ELSE "",
                         before |-> sentWire, after |-> r.wire, returned |-> r.returned]
  /\ UNCHANGED <<self_host, self_port, connRunning, connCommandSocket, videoAddr,
                 commandAddr, connLast, connRefused>>

\* disconnect()
Disconnect ==
  /\ UNCHANGED notConnVars
  /\ connRunning \/ connCommandSocket # "none"
  /\ connRunning' = FALSE
  /\ connCommandSocket' = "none"
  /\ sentWire' = <<>>          \* the socket written to is closed and dropped
  /\ sendLast' = NoSend
  /\ UNCHANGED <<self_host, self_port, videoAddr, commandAddr, connLast, connRefused>>

ConnNext ==
  \/ ConnectWhileRunning
  \/ \E h \in ConnectHosts, p \in ConnectPorts, cp \in CommandPorts : Connect(h, p, cp)
  \/ \E c \in SendSamples, outcome \in SendOutcomes : SendCommand(c, outcome)
  \/ Disconnect

\* C22: send_command returns False and writes nothing when the client is not
\* connected; when it is connected and the write goes through, it has written
\* exactly the JSON text of the command followed by one newline and returns True
\* (and a write that raises gives False, never an exception).
SendCommandContract ==
  sendLast.called =>
    /\ ~sendLast.connected => (~sendLast.returned /\ sendLast.after = sendLast.before)
    /\ (sendLast.connected /\ sendLast.outcome = "ok") =>
         /\ sendLast.returned
         /\ sendLast.after =
              sendLast.before \o <<TextToken(to_json(sendLast.command)), NewlineToken>>
    /\ (sendLast.connected /\ sendLast.outcome # "ok") => ~sendLast.returned

SendCommandContractWitness ==
  /\ sendLast.called /\ sendLast.connected /\ sendLast.returned
  /\ Len(sendLast.before) = 2
  /\ Len(sentWire) = 4

\* C24: connect takes a bare host as it is and a tunnel URL apart: for a URL
\* the parser resolves, self.host and self.port are the host and port of the
\* URL; the video socket connects to (host, port) and the command socket to
\* (host, command port), where the command port is the resolved port plus one
\* unless the caller gave one, which is used unchanged.
ConnectResolves ==
  connLast.called =>
    LET isUrl == Contains(connLast.host, <<":", "/", "/">>)
        pair == parse_ngrok_url(connLast.host)
    IN  /\ ~isUrl => (self_host = connLast.host /\ self_port = connLast.port)
        /\ (isUrl /\ ParsedTruthy(pair)) =>
             (self_host = pair.host /\ self_port = pair.port)
        /\ videoAddr = Address(self_host, self_port)
        /\ commandAddr.set =>
             /\ commandAddr.host = self_host
             /\ connLast.command_port.isNone => commandAddr.port = self_port + 1
             /\ ~connLast.command_port.isNone =>
                  commandAddr.port = connLast.command_port.value

ConnectResolvesWitness ==
  /\ connLast.called /\ connLast.returned /\ connRunning
  /\ Contains(connLast.host, <<":", "/", "/">>)
  /\ ~connLast.command_port.isNone
  /\ commandAddr.set /\ commandAddr.port # self_port + 1
  /\ self_port # connLast.port

(***************************************************************************)
(* StreamServer.start and stop as the caller sees them.  A socket is       *)
(* "none" (None), "new" (created), "bound" or "listening"; the threads are *)
(* counted as they are started.                                            *)
(***************************************************************************)
ListenerFailures ==
  {"video_bind_fails", "video_listen_fails", "command_bind_fails", "command_listen_fails"}
\* what the operating system answers to the bind and listen calls of start()
StartOutcomes == {"ok"} \cup ListenerFailures
\* what the tunnel provider answers during one call: for the video and for the
\* command tunnel the disconnect of a tunnel still registered under the name (D),
\* the connect (1) and the connect of the fallback (2); and the disconnects of
\* stop_all_tunnels, by name.  Here: every answer is "ok"
NoAnswers ==
  [vD |-> "ok", v1 |-> "ok", v2 |-> "ok", cD |-> "ok", c1 |-> "ok", c2 |-> "ok",
   stops |-> [n \in TunnelNames |-> "ok"]]
ServerPorts == {5000, 6000, 8080}
MaxStarts == 2
NoService == [tunnels |-> NoTunnels, live |-> {}, nextHandle |-> 1]
NewServer ==
  [running |-> FALSE, server_socket |-> "none", command_socket |-> "none",
   accept_threads |-> 0, command_threads |-> 0, tunnels |-> FALSE,
   ngrok_service |-> NoService, public_url |-> NoUrl, public_command_url |-> NoUrl]
\* what a call found: the threads started so far, the next tunnel of the
\* provider, the video listener
Found(st) ==
  [accept_threads |-> st.accept_threads, command_threads |-> st.command_threads,
   nextHandle |-> st.ngrok_service.nextHandle, server_socket |-> st.server_socket]
NoStart == [called |-> FALSE, outcome |-> "", returned |-> FALSE, raised |-> FALSE,
            before |-> Found(NewServer)]

\* the NgrokService of a server as a service state at the start of a call, and back
ServiceOf(st) ==
  [tunnels |-> st.ngrok_service.tunnels, live |-> st.ngrok_service.live,
   nextHandle |-> st.ngrok_service.nextHandle,
   requests |-> <<>>, granted |-> <<>>, disconnects |-> <<>>]
Bare(svc) == [tunnels |-> svc.tunnels, live |-> svc.live, nextHandle |-> svc.nextHandle]

\* stop() that leaves the tunnels alone
stop_server_keep_tunnels(st, ngrok, outs) ==
  [st EXCEPT !.running = FALSE, !.server_socket = "none", !.command_socket = "none",
             !.tunnels = FALSE]

\* StreamServer.stop() on the fields start sets; outs answers the disconnects
\* of stop_all_tunnels
stop_server(st, ngrok, outs) ==
  [st EXCEPT !.running = FALSE, !.server_socket = "none", !.command_socket = "none",
             !.tunnels = FALSE,
             !.ngrok_service = IF ngrok THEN Bare(stop_all_tunnels(ServiceOf(st), outs)) ELSE @,
             !.public_url = IF ngrok THEN NoUrl ELSE @,
             !.public_command_url = IF ngrok THEN NoUrl ELSE @]

\* the part of start() after both listeners are up: running, the tunnels, the
\* accept threads
AfterListen(up, port, cport, ngrok, net) ==
  LET v == start_tunnel(ServiceOf(up), port, "video", "tcp", TRUE, net.vD, net.v1, net.v2)
      c == start_tunnel(v.st, cport, "command", "tcp", TRUE, net.cD, net.c1, net.c2)
      tunnelled == [up EXCEPT !.ngrok_service = Bare(c.st), !.public_url = v.ret,
                              !.public_command_url = c.ret]
      ready == IF ngrok THEN tunnelled ELSE up
  IN  IF ngrok /\ (v.ret = NoUrl \/ c.ret = NoUrl)
      THEN \* self.stop(), return False
           [server |-> stop_server(tunnelled, ngrok, net.stops), returned |-> FALSE,
            raised |-> FALSE]
      ELSE [server |-> [ready EXCEPT !.accept_threads = @ + 1, !.command_threads = @ + 1,
                                     !.tunnels = ngrok],
            returned |-> TRUE, raised |-> FALSE]

\* start() marking the server running before it binds
start_running_first(st, port, cport, ngrok, outcome, net) ==
  IF st.running THEN [server |-> st, returned |-> FALSE, raised |-> FALSE]
  ELSE CASE outcome = "video_bind_fails" ->
              [server |-> [st EXCEPT !.running = TRUE, !.server_socket = "new"],
               returned |-> FALSE, raised |-> FALSE]
         [] outcome = "video_listen_fails" ->
              [server |-> [st EXCEPT !.running = TRUE, !.server_socket = "bound"],
               returned |-> FALSE, raised |-> FALSE]
         [] outcome = "command_bind_fails" ->
              [server |-> [st EXCEPT !.running = TRUE, !.server_socket = "listening",
                                     !.command_socket = "new"],
               returned |-> FALSE, raised |-> FALSE]
         [] outcome = "command_listen_fails" ->
              [server |-> [st EXCEPT !.running = TRUE, !.server_socket = "listening",
                                     !.command_socket = "bound"],
               returned |-> FALSE, raised |-> FALSE]
         [] OTHER ->
              AfterListen([st EXCEPT !.running = TRUE, !.server_socket = "listening",
                                     !.command_socket = "listening"],
                          port, cport, ngrok, net)

\* StreamServer.start(): [server, returned, raised]; every exception of the
\* body is caught and gives False
start(st, port, cport, ngrok, outcome, net) ==
  IF st.running THEN [server |-> st, returned |-> FALSE, raised |-> FALSE]
  ELSE CASE outcome = "video_bind_fails" ->
              [server |-> [st EXCEPT !.server_socket = "new"],
               returned |-> FALSE, raised |-> FALSE]
         [] outcome = "video_listen_fails" ->
              [server |-> [st EXCEPT !.server_socket = "bound"],
               returned |-> FALSE, raised |-> FALSE]
         [] outcome = "command_bind_fails" ->
              [server |-> [st EXCEPT !.server_socket = "listening", !.command_socket = "new"],
               returned |-> FALSE, raised |-> FALSE]
         [] outcome = "command_listen_fails" ->
              [server |-> [st EXCEPT !.server_socket = "listening", !.command_socket = "bound"],
               returned |-> FALSE, raised |-> FALSE]
         [] OTHER ->
              AfterListen([st EXCEPT !.running = TRUE, !.server_socket = "listening",
                                     !.command_socket = "listening"],
                          port, cport, ngrok, net)

StartIdle ==
  /\ server = NewServer
  /\ server_port = 5000
  /\ command_port = 5001
  /\ use_ngrok = FALSE
  /\ startLast = NoStart

\* StreamServer(host, port, use_ngrok)
StartInit ==
  /\ server = NewServer
  /\ server_port \in ServerPorts
  /\ command_port = server_port + 1
  /\ use_ngrok \in BOOLEAN
  /\ startLast = NoStart

\* the provider grants a TCP tunnel with fallback: at once, or as an HTTP tunnel
Granted(out1, out2) == out1 = "ok" \/ (out1 = "plan_limit" /\ out2 = "ok")

\* the answers that matter to a start() that reaches the tunnels: no disconnect
\* of a name that is not registered, no fallback unless the plan's limits were
\* met, no stop_all_tunnels unless a tunnel failed
RelevantAnswers(st) ==
  {net \in [vD : IF "video" \in DOMAIN st.ngrok_service.tunnels
                 THEN DisconnectOutcomes ELSE {"ok"},
            v1 : ConnectOutcomes, v2 : {"ok", "error"},
            cD : IF "command" \in DOMAIN st.ngrok_service.tunnels
                 THEN DisconnectOutcomes ELSE {"ok"},
            c1 : ConnectOutcomes, c2 : {"ok", "error"},
            stops : [TunnelNames -> DisconnectOutcomes]] :
     /\ net.v1 # "plan_limit" => net.v2 = "ok"
     /\ net.c1 # "plan_limit" => net.c2 = "ok"
     /\ (Granted(net.v1, net.v2) /\ Granted(net.c1, net.c2)) => net.stops = NoAnswers.stops}
ReachesTunnels(outcome) == use_ngrok /\ outcome = "ok" /\ ~server.running

Start(outcome, net) ==
  /\ UNCHANGED notStartVars
  /\ server.accept_threads < MaxStarts
  /\ use_ngrok => server.ngrok_service.nextHandle < MaxHandles
  /\ LET r == start(server, server_port, command_port, use_ngrok, outcome, net)
     IN  /\ server' = r.server
         /\ startLast' = [called |-> TRUE,
                          outcome |-> IF server.running THEN "running"
                                      ELSE IF outcome = "ok" /\ ~r.returned THEN "tunnel_fails"
                                      ELSE outcome,
                          returned |-> r.returned, raised |-> r.raised,
                          before |-> Found(server)]
  /\ UNCHANGED <<server_port, command_port, use_ngrok>>

StopServer(outs) ==
  /\ UNCHANGED notStartVars
  /\ \A n \in TunnelNames :
       (~use_ngrok \/ n \notin DOMAIN server.ngrok_service.tunnels) => outs[n] = "ok"
  /\ server' = stop_server(server, use_ngrok, outs)
  /\ server' # server
  /\ UNCHANGED <<server_port, command_port, use_ngrok, startLast>>

StartNext ==
  \/ \E outcome \in StartOutcomes : ~ReachesTunnels(outcome) /\ Start(outcome, NoAnswers)
  \/ ReachesTunnels("ok") /\ \E net \in RelevantAnswers(server) : Start("ok", net)
  \/ \E outs \in [TunnelNames -> DisconnectOutcomes] : StopServer(outs)

\* C25: when bind or listen of the video or of the command socket fails, start()
\* returns False without raising, the server is not running, and no accept
\* thread has been started by the call.
ListenerFailureReported ==
  (startLast.called /\ startLast.outcome \in ListenerFailures) =>
    /\ ~startLast.returned
    /\ ~startLast.raised
    /\ ~server.running
    /\ server.accept_threads = startLast.before.accept_threads
    /\ server.command_threads = startLast.before.command_threads

ListenerFailureReportedWitness ==
  /\ startLast.called /\ startLast.outcome = "command_listen_fails"
  /\ server.server_socket = "listening"
  /\ server.accept_threads = 1

\* C33: after start() has returned False because a bind, a listen or a tunnel
\* failed, neither listener socket of the server is open: both are closed and
\* cleared.
FailedStartReleasesListeners ==
  (startLast.called /\ ~startLast.returned /\ startLast.outcome # "running") =>
    (server.server_socket = "none" /\ server.command_socket = "none")

\* what holds: the listeners are closed when it was a tunnel that failed
TunnelFailureReleasesListeners ==
  (startLast.called /\ startLast.outcome = "tunnel_fails") =>
    (server.server_socket = "none" /\ server.command_socket = "none")

\* the tunnels the registry of the server's NgrokService refers to
ServerRegistered ==
  {server.ngrok_service.tunnels[n].tunnel : n \in DOMAIN server.ngrok_service.tunnels}
\* the tunnels the provider opened during the last start()
StartedByLastCall ==
  {h \in 1..(server.ngrok_service.nextHandle - 1) :
     h >= startLast.before.nextHandle}

MaxMonitors == 3
MonitorSizes == {[width |-> 1920, height |-> 1080], [width |-> 1280, height |-> 720]}
VirtualMonitor == [width |-> 3200, height |-> 1080]
MonitorLists == {<<VirtualMonitor>> \o m : m \in SeqsUpTo(MonitorSizes, MaxMonitors)}
MonitorIndexes == -2 .. (MaxMonitors + 1)
NoneIndex == [isNone |-> TRUE, value |-> 0]
SomeIndex(i) == [isNone |-> FALSE, value |-> i]
\* self.monitors[k] for an mss index k
MssMonitor(mons, k) == mons[k + 1]
MssInRange(mons, k) == k >= 0 /\ k < Len(mons)

\* set_monitor taking the index as the mss index
set_monitor_mss(mons, cur, monitor_index) ==
  IF monitor_index < 1 \/ monitor_index >= Len(mons)
  THEN [returned |-> FALSE, current_monitor |-> cur]
  ELSE [returned |-> TRUE, current_monitor |-> monitor_index]

\* ScreenCapture.set_monitor(monitor_index): [returned, current_monitor]
set_monitor(mons, cur, monitor_index) ==
  LET mss_index == monitor_index + 1
  IN  IF mss_index < 1 \/ mss_index >= Len(mons)
      THEN [returned |-> FALSE, current_monitor |-> cur]
      ELSE [returned |-> TRUE, current_monitor |-> mss_index]

\* ScreenCapture.get_monitor_size(monitor_index): [raised, width, height];
\* raised is the IndexError of self.monitors[self.current_monitor]
get_monitor_size(mons, cur, monitor_index) ==
  IF monitor_index.isNone
  THEN IF MssInRange(mons, cur)
       THEN [raised |-> FALSE, width |-> MssMonitor(mons, cur).width,
             height |-> MssMonitor(mons, cur).height]
       ELSE [raised |-> TRUE, width |-> 0, height |-> 0]
  ELSE LET mss_index == monitor_index.value + 1
       IN  IF mss_index < 1 \/ mss_index >= Len(mons)
           THEN [raised |-> FALSE, width |-> 0, height |-> 0]
           ELSE [raised |-> FALSE, width |-> MssMonitor(mons, mss_index).width,
                 height |-> MssMonitor(mons, mss_index).height]

NoMonitorCall == [op |-> "", arg |-> NoneIndex, returned |-> FALSE, before |-> 1,
                  size |-> [raised |-> FALSE, width |-> 0, height |-> 0]]

\* the calls capture_screen makes, each "ok" or "raise": the first grab, mss.mss()
\* with its monitors, the second grab, the conversion to an array
CaptureCalls == {"grab", "mss", "regrab", "convert"}
CaptureOutcomes == [CaptureCalls -> {"ok", "raise"}]
\* region: None, a (left, top, width, height) tuple, a tuple of another length
Regions == {"none", "region", "malformed"}

\* capture_screen answering a failed grab with None, without a second grab
capture_screen_no_retry(mons, cur, region, outs, fresh) ==
  IF region = "malformed"
  THEN [made |-> <<>>, returned |-> "none", raised |-> FALSE, monitors |-> mons,
        reacquired |-> FALSE]
  ELSE IF region = "none" /\ (cur < 1 \/ cur >= Len(mons))
  THEN [made |-> <<>>, returned |-> "none", raised |-> FALSE, monitors |-> mons,
        reacquired |-> FALSE]
  ELSE IF outs["grab"] = "raise"
  THEN [made |-> <<"grab">>, returned |-> "none", raised |-> FALSE, monitors |-> mons,
        reacquired |-> FALSE]
  ELSE [made |-> <<"grab", "convert">>,
        returned |-> IF outs["convert"] = "ok" THEN "frame" ELSE "none",
        raised |-> FALSE, monitors |-> mons, reacquired |-> FALSE]

\* ScreenCapture.capture_screen(region): [made, returned, raised, monitors,
\* reacquired]; made are the calls made in order, returned is "frame" (the
\* array) or "none", monitors is self.monitors after the call (fresh is the list
\* a new mss.mss() reports), reacquired says that self.sct was replaced
capture_screen(mons, cur, region, outs, fresh) ==
  LET after(calls) ==
        [made |-> calls \o <<"convert">>,
         returned |-> IF outs["convert"] = "ok" THEN "frame" ELSE "none",
         raised |-> FALSE]
      none(calls) == [made |-> calls, returned |-> "none", raised |-> FALSE]
      kept(r) == [made |-> r.made, returned |-> r.returned, raised |-> r.raised,
                  monitors |-> mons, reacquired |-> FALSE]
      renewed(r) == [made |-> r.made, returned |-> r.returned, raised |-> r.raised,
                     monitors |-> fresh, reacquired |-> TRUE]
  IN  IF region = "malformed" THEN kept(none(<<>>))   \* the unpacking raises ValueError
      ELSE IF region = "none" /\ (cur < 1 \/ cur >= Len(mons)) THEN kept(none(<<>>))
      ELSE IF outs["grab"] = "ok" THEN kept(after(<<"grab">>))
      ELSE IF outs["mss"] = "raise" THEN kept(none(<<"grab", "mss">>))
      ELSE IF outs["regrab"] = "raise" THEN renewed(none(<<"grab", "mss", "regrab">>))
      ELSE renewed(after(<<"grab", "mss", "regrab">>))

\* what a new mss.mss() may report: the monitors as before, or one monitor or
\* none (a display was unplugged)
FreshLists == {m \in MonitorLists : Len(m) <= 2}

NoCapture == [called |-> FALSE, region |-> "none", outs |-> [c \in CaptureCalls |-> "ok"],
              made |-> <<>>, returned |-> "none", raised |-> FALSE]

MonitorIdle ==
  /\ monitors = <<VirtualMonitor>>
  /\ current_monitor = 1
  /\ monLast = NoMonitorCall
  /\ sct = "initial"
  /\ capLast = NoCapture

\* ScreenCapture(): the monitors mss reports, the first one current
MonitorInit ==
  /\ monitors \in MonitorLists
  /\ current_monitor = 1
  /\ monLast = NoMonitorCall
  /\ sct = "initial"
  /\ capLast = NoCapture

SetMonitor(i) ==
  /\ UNCHANGED notMonitorVars
  /\ LET r == set_monitor(monitors, current_monitor, i)
     IN  /\ current_monitor' = r.current_monitor
         /\ monLast' = [NoMonitorCall EXCEPT !.op = "set_monitor", !.arg = SomeIndex(i),
                                             !.returned = r.returned,
                                             !.before = current_monitor]
  /\ capLast' = NoCapture
  /\ UNCHANGED <<monitors, sct>>

GetMonitorSize(idx) ==
  /\ UNCHANGED notMonitorVars
  /\ monLast' = [NoMonitorCall EXCEPT !.op = "get_monitor_size", !.arg = idx,
                                      !.before = current_monitor,
                                      !.size = get_monitor_size(monitors, current_monitor, idx)]
  /\ capLast' = NoCapture
  /\ UNCHANGED <<monitors, current_monitor, sct>>

CaptureScreen(region, outs, fresh) ==
  /\ UNCHANGED notMonitorVars
  /\ LET r == capture_screen(monitors, current_monitor, region, outs, fresh)
     IN  /\ monitors' = r.monitors
         /\ sct' = IF r.reacquired THEN "reacquired" ELSE sct
         /\ capLast' = [called |-> TRUE, region |-> region, outs |-> outs, made |-> r.made,
                        returned |-> r.returned, raised |-> r.raised]
  /\ monLast' = NoMonitorCall
  /\ UNCHANGED current_monitor

MonitorNext ==
  \/ \E i \in MonitorIndexes : SetMonitor(i)
  \/ \E idx \in {NoneIndex} \cup {SomeIndex(i) : i \in MonitorIndexes} : GetMonitorSize(idx)
  \/ \E region \in Regions, outs \in CaptureOutcomes, fresh \in FreshLists \cup {monitors} :
       CaptureScreen(region, outs, fresh)

\* the number of monitors: the list of mss without its virtual display
MonitorCount == Len(monitors) - 1
OutOfRange(i) == i < 0 \/ i >= MonitorCount

\* C26: set_monitor(i) returns True and makes monitor i current exactly when i
\* is the 0-based index of a monitor; for a negative i and for i at or beyond
\* the number of monitors it returns False and the current monitor stays; and
\* get_monitor_size of such an index returns (0, 0).
MonitorIndexChecked ==
  /\ monLast.op = "set_monitor" =>
       LET i == monLast.arg.value
       IN  /\ monLast.returned <=> ~OutOfRange(i)
           /\ monLast.returned => current_monitor = i + 1
           /\ ~monLast.returned => current_monitor = monLast.before
  /\ (monLast.op = "get_monitor_size" /\ ~monLast.arg.isNone
        /\ OutOfRange(monLast.arg.value)) =>
       (~monLast.size.raised /\ monLast.size.width = 0 /\ monLast.size.height = 0)

MonitorIndexCheckedWitness ==
  /\ MonitorCount = 2
  /\ monLast.op = "set_monitor" /\ monLast.arg.value = 2 /\ ~monLast.returned
  /\ current_monitor = 2

Count(seq, x) == Cardinality({n \in DOMAIN seq : seq[n] = x})
GrabFailed == capLast.called /\ capLast.made # <<>> /\ capLast.outs["grab"] = "raise"

\* C32: capture_screen never raises; after a failed grab it re-acquires the
\* capture handle once and grabs once more, never more often; when that second
\* grab succeeds it returns a frame, when it fails it returns None.
CaptureRetriesOnce ==
  /\ ~capLast.raised
  /\ GrabFailed =>
       /\ Count(capLast.made, "grab") = 1 /\ Count(capLast.made, "mss") = 1
       /\ Count(capLast.made, "regrab") = (IF capLast.outs["mss"] = "ok" THEN 1 ELSE 0)
       /\ Count(capLast.made, "regrab") = 1 =>
            (capLast.returned = "frame" <=> capLast.outs["regrab"] = "ok")

\* C32 as the code has it: the image of a second grab that succeeds is
\* converted as the image of a first grab is, and None is returned when the
\* conversion raises.
CaptureRetriesOnceThenConverts ==
  /\ ~capLast.raised
  /\ GrabFailed =>
       /\ Count(capLast.made, "grab") = 1 /\ Count(capLast.made, "mss") = 1
       /\ Count(capLast.made, "regrab") = (IF capLast.outs["mss"] = "ok" THEN 1 ELSE 0)
       /\ Count(capLast.made, "regrab") = 1 =>
            /\ sct = "reacquired"
            /\ capLast.returned = "frame" <=>
                 (capLast.outs["regrab"] = "ok" /\ capLast.outs["convert"] = "ok")
            /\ capLast.outs["regrab"] = "raise" => capLast.returned = "none"
       /\ Count(capLast.made, "regrab") = 0 => capLast.returned = "none"

CaptureRetriesOnceWitness ==
  /\ GrabFailed
  /\ capLast.made = <<"grab", "mss", "regrab", "convert">>
  /\ capLast.returned = "frame"
  /\ sct = "reacquired"

(***************************************************************************)
(* RemoteControl: each method runs its pyautogui calls inside one try and  *)
(* returns True, or False when a call raised.  A method call is            *)
(* Call(method, args) as _execute_command makes it.                        *)
(***************************************************************************)
Primitive(fn, args) == [fn |-> fn, args |-> args]
PrimitiveOutcomes == {"ok", "raise"}
MaxInjected == 1

\* try: the calls in order ... return True / except Exception: return False,
\* with the exception let through
GuardedRaising(calls, outs) ==
  LET failing == {n \in DOMAIN calls : outs[n] = "raise"}
      made == IF failing = {} THEN calls
              ELSE SubSeq(calls, 1, CHOOSE n \in failing : \A m \in failing : n <= m)
  IN  [made |-> made, returned |-> failing = {}, raised |-> failing # {}]

\* try: the calls in order ... return True / except Exception: return False.
\* [made, returned, raised]: the calls made, up to and including one that raised
Guarded(calls, outs) ==
  LET failing == {n \in DOMAIN calls : outs[n] = "raise"}
      made == IF failing = {} THEN calls
              ELSE SubSeq(calls, 1, CHOOSE n \in failing : \A m \in failing : n <= m)
  IN  [made |-> made, returned |-> failing = {}, raised |-> FALSE]

\* the methods of RemoteControl, by name
RemoteControlMethod(call, outs) ==
  LET a == call.args
  IN  CASE call.method = "move_mouse" ->
             IF a[3].b
             THEN Guarded(<<Primitive("position", <<>>), Primitive("moveRel", <<a[1], a[2]>>)>>, outs)
             ELSE Guarded(<<Primitive("moveTo", <<a[1], a[2]>>)>>, outs)
        [] call.method = "click_mouse" ->
             IF a[2].b
             THEN Guarded(<<Primitive("doubleClick", <<a[1]>>)>>, outs)
             ELSE Guarded(<<Primitive("click", <<a[1]>>)>>, outs)
        [] call.method = "mouse_down" -> Guarded(<<Primitive("mouseDown", a)>>, outs)
        [] call.method = "mouse_up" -> Guarded(<<Primitive("mouseUp", a)>>, outs)
        [] call.method = "scroll_mouse" -> Guarded(<<Primitive("scroll", a)>>, outs)
        [] call.method = "press_key" -> Guarded(<<Primitive("press", a)>>, outs)
        [] call.method = "key_down" -> Guarded(<<Primitive("keyDown", a)>>, outs)
        [] call.method = "key_up" -> Guarded(<<Primitive("keyUp", a)>>, outs)
        [] call.method = "type_text" -> Guarded(<<Primitive("write", a)>>, outs)
        [] OTHER -> Guarded(<<Primitive("hotkey", a)>>, outs)

\* the method calls the commands of the factories lead to
ExecutorCalls ==
  UNION {{execute_command(c)[n] : n \in DOMAIN execute_command(c)} : c \in FactoryCommands}
NoExecutorCall ==
  [called |-> FALSE, call |-> Call("", <<>>), made |-> <<>>, outs |-> <<>>,
   returned |-> FALSE, raised |-> FALSE]

\* pyautogui.position() reads the pointer; every other call is an input
InputsOf(made) == SelectSeq(made, LAMBDA c : c.fn # "position")

ExecutorIdle ==
  /\ rcLast = NoExecutorCall
  /\ injected = <<>>

ExecutorInit == ExecutorIdle

\* one call of a RemoteControl method
Invoke(call, outs) ==
  /\ UNCHANGED notExecutorVars
  /\ Len(injected) < MaxInjected
  /\ LET r == RemoteControlMethod(call, outs)
         done == IF r.returned THEN r.made ELSE SubSeq(r.made, 1, Len(r.made) - 1)
     IN  /\ rcLast' = [called |-> TRUE, call |-> call, made |-> r.made,
                       outs |-> SubSeq(outs, 1, Len(r.made)),
                       returned |-> r.returned, raised |-> r.raised]
         /\ injected' = injected \o InputsOf(done)

\* the screen is left alone for a while: the inputs are forgotten
ExecutorSettle ==
  /\ UNCHANGED notExecutorVars
  /\ injected # <<>>
  /\ injected' = <<>>
  /\ UNCHANGED rcLast

ExecutorNext ==
  \/ \E call \in ExecutorCalls, outs \in [1..2 -> PrimitiveOutcomes] : Invoke(call, outs)
  \/ ExecutorSettle

\* the input primitive a method call stands for
ExpectedInput(call) ==
  LET a == call.args
  IN  CASE call.method = "move_mouse" ->
             Primitive(IF a[3] = PyBool(TRUE) THEN "moveRel" ELSE "moveTo", <<a[1], a[2]>>)
        [] call.method = "click_mouse" ->
             Primitive(IF a[2] = PyBool(TRUE) THEN "doubleClick" ELSE "click", <<a[1]>>)
        [] call.method = "mouse_down" -> Primitive("mouseDown", a)
        [] call.method = "mouse_up" -> Primitive("mouseUp", a)
        [] call.method = "scroll_mouse" -> Primitive("scroll", a)
        [] call.method = "press_key" -> Primitive("press", a)
        [] call.method = "key_down" -> Primitive("keyDown", a)
        [] call.method = "key_up" -> Primitive("keyUp", a)
        [] call.method = "type_text" -> Primitive("write", a)
        [] OTHER -> Primitive("hotkey", a)

\* C27: every method invokes exactly one input primitive, with the arguments it
\* was given and chosen by its flags, returns True when the primitive succeeded
\* and False, without raising, when the primitive raised.
OnePrimitivePerMethod ==
  rcLast.called =>
    /\ InputsOf(rcLast.made) = <<ExpectedInput(rcLast.call)>>
    /\ ~rcLast.raised
    /\ rcLast.returned <=> (rcLast.outs[Len(rcLast.made)] = "ok")

\* C27 as it holds: a method invokes its input primitive unless the reading of
\* the pointer that a relative move_mouse starts with raised; it returns True
\* exactly when every call it made succeeded, and never raises.
AtMostOnePrimitivePerMethod ==
  rcLast.called =>
    /\ ~rcLast.raised
    /\ rcLast.returned <=> (\A n \in DOMAIN rcLast.outs : rcLast.outs[n] = "ok")
    /\ \/ InputsOf(rcLast.made) = <<ExpectedInput(rcLast.call)>>
       \/ /\ InputsOf(rcLast.made) = <<>>
          /\ rcLast.call.method = "move_mouse" /\ rcLast.call.args[3] = PyBool(TRUE)
          /\ rcLast.made = <<Primitive("position", <<>>)>>
          /\ ~rcLast.returned

AtMostOnePrimitiveWitness ==
  /\ rcLast.called /\ rcLast.returned
  /\ rcLast.call.method = "move_mouse" /\ rcLast.call.args[3] = PyBool(TRUE)
  /\ Len(rcLast.made) = 2
  /\ injected = <<Primitive("moveRel", <<PyInt(-3), PyInt(7)>>)>>

(***************************************************************************)
(* The video send loop with the settings it reads.  Two connections are    *)
(* active; each cycle of _handle_client reads self.frame_time in the       *)
(* frame-rate test and self.quality in imencode.  The clock counts ticks   *)
(* of 1/TicksPerSecond s and starts one second after last_frame_time = 0.  *)
(* Setter calls are numbered; settingsLog[e + 1] holds the settings after  *)
(* the e-th call.                                                          *)
(***************************************************************************)
LoopConns == {"A", "B"}
TicksPerSecond == 2
MaxClock == 3
MaxSets == 1
MaxSent == 2
LoopQualities == {150}
LoopFps == {0}
NoFrame == [sent |-> FALSE, conn |-> "", quality |-> 0, frame_time |-> Reciprocal(1),
            startCall |-> 0, sendCall |-> 0, afterMiss |-> FALSE]
\* a handler at the top of its loop, its locals unset
AtLoopTop(h) ==
  [h EXCEPT !.pc = "loop", !.current_time = 0, !.startCall = 0,
            !.frame_time = Reciprocal(1), !.gap = 0, !.frame = "none", !.quality = 0]
NewHandler ==
  [pc |-> "loop", current_time |-> 0, startCall |-> 0, frame_time |-> Reciprocal(1),
   gap |-> 0, frame |-> "none", quality |-> 0, open |-> TRUE, listed |-> TRUE,
   missed |-> FALSE]

\* current_time - self.last_frame_time < self.frame_time, for a gap in ticks
TooSoon(gap, ft) == gap * ft.den < ft.num * TicksPerSecond

\* the handler keeping the quality the server was constructed with
ReadQualityAtStart(s, log) == log[1].quality

\* [cv2.IMWRITE_JPEG_QUALITY, self.quality]
ReadQuality(s, log) == s.quality

\* a failed capture ending the handler
AfterCaptureStrict(ok) == IF ok THEN "send" ELSE "finally"

\* frame = capture_screen(); if frame is None: ... time.sleep(0.1); continue
AfterCapture(ok) == IF ok THEN "send" ELSE "backoff"

LoopIdle ==
  /\ lClock = TicksPerSecond
  /\ settings = [quality |-> 50, fps_limit |-> 30, frame_time |-> Reciprocal(30)]
  /\ setCalls = 0
  /\ settingsLog = <<settings>>
  /\ lLastFrameTime = 0
  /\ framesSent = 0
  /\ lastFrame = NoFrame
  /\ handlers = [c \in LoopConns |-> NewHandler]

LoopInit == LoopIdle

LoopTick ==
  /\ UNCHANGED notLoopVars
  /\ lClock < MaxClock
  /\ lClock' = lClock + 1
  /\ UNCHANGED <<settings, setCalls, settingsLog, lLastFrameTime, framesSent, lastFrame, handlers>>

\* set_quality(q)
LoopSetQuality(q) ==
  /\ UNCHANGED notLoopVars
  /\ setCalls < MaxSets
  /\ settings' = [settings EXCEPT !.quality = set_quality(q)]
  /\ setCalls' = setCalls + 1
  /\ settingsLog' = Append(settingsLog, settings')
  /\ UNCHANGED <<lClock, lLastFrameTime, framesSent, lastFrame, handlers>>

\* set_fps_limit(fps)
LoopSetFpsLimit(fps) ==
  /\ UNCHANGED notLoopVars
  /\ setCalls < MaxSets
  /\ settings' = [settings EXCEPT !.fps_limit = set_fps_limit(fps).fps_limit,
                                  !.frame_time = set_fps_limit(fps).frame_time]
  /\ setCalls' = setCalls + 1
  /\ settingsLog' = Append(settingsLog, settings')
  /\ UNCHANGED <<lClock, lLastFrameTime, framesSent, lastFrame, handlers>>

\* the top of the while loop and the frame-rate test; when it is too soon the
\* handler sleeps 1 ms and is at the top again
CycleTop(c) ==
  /\ UNCHANGED notLoopVars
  /\ handlers[c].pc = "loop"
  /\ LET gap == lClock - lLastFrameTime
     IN  handlers' = [handlers EXCEPT ![c] =
           IF TooSoon(gap, settings.frame_time) THEN AtLoopTop(@)
           ELSE [@ EXCEPT !.pc = "capture", !.current_time = lClock, !.startCall = setCalls,
                          !.frame_time = settings.frame_time, !.gap = gap]]
  /\ UNCHANGED <<lClock, settings, setCalls, settingsLog, lLastFrameTime, framesSent, lastFrame>>

\* frame = self.screen_capture.capture_screen(); a frame is encoded with
\* self.quality, pickled and packed
CycleCapture(c) ==
  /\ UNCHANGED notLoopVars
  /\ handlers[c].pc = "capture"
  /\ \E ok \in BOOLEAN :
       handlers' = [handlers EXCEPT ![c] =
         [@ EXCEPT !.pc = AfterCapture(ok), !.frame = IF ok THEN "image" ELSE "failed",
                   !.quality = IF ok THEN ReadQuality(settings, settingsLog) ELSE 0,
                   !.missed = IF ok THEN @ ELSE TRUE]]
  /\ UNCHANGED <<lClock, settings, setCalls, settingsLog, lLastFrameTime, framesSent, lastFrame>>

\* logger.warning; time.sleep(0.1); continue
CycleBackoff(c) ==
  /\ UNCHANGED notLoopVars
  /\ handlers[c].pc = "backoff"
  /\ handlers' = [handlers EXCEPT ![c] = AtLoopTop(@)]
  /\ UNCHANGED <<lClock, settings, setCalls, settingsLog, lLastFrameTime, framesSent, lastFrame>>

\* client_socket.sendall(message_size + data); self.last_frame_time = current_time
CycleSend(c) ==
  /\ UNCHANGED notLoopVars
  /\ handlers[c].pc = "send"
  /\ handlers[c].open
  /\ framesSent < MaxSent
  /\ lLastFrameTime' = handlers[c].current_time
  /\ framesSent' = framesSent + 1
  /\ lastFrame' = [sent |-> TRUE, conn |-> c, quality |-> handlers[c].quality,
                   frame_time |-> handlers[c].frame_time,
                   startCall |-> handlers[c].startCall, sendCall |-> setCalls,
                   afterMiss |-> handlers[c].missed]
  /\ handlers' = [handlers EXCEPT ![c] = AtLoopTop([@ EXCEPT !.missed = FALSE])]
  /\ UNCHANGED <<lClock, settings, setCalls, settingsLog>>

\* sendall raises: the peer is gone
CycleSendFails(c) ==
  /\ UNCHANGED notLoopVars
  /\ handlers[c].pc = "send"
  /\ handlers' = [handlers EXCEPT ![c] = [@ EXCEPT !.pc = "finally"]]
  /\ UNCHANGED <<lClock, settings, setCalls, settingsLog, lLastFrameTime, framesSent, lastFrame>>

\* finally: client_socket.close(); self.connections.remove(client_socket)
CycleFinally(c) ==
  /\ UNCHANGED notLoopVars
  /\ handlers[c].pc = "finally"
  /\ handlers' = [handlers EXCEPT ![c] =
       [AtLoopTop(@) EXCEPT !.pc = "done", !.open = FALSE, !.listed = FALSE]]
  /\ UNCHANGED <<lClock, settings, setCalls, settingsLog, lLastFrameTime, framesSent, lastFrame>>

LoopNext ==
  \/ LoopTick
  \/ \E q \in LoopQualities : LoopSetQuality(q)
  \/ \E fps \in LoopFps : LoopSetFpsLimit(fps)
  \/ \E c \in LoopConns : CycleTop(c)
  \/ \E c \in LoopConns : CycleCapture(c)
  \/ \E c \in LoopConns : CycleBackoff(c)
  \/ \E c \in LoopConns : CycleSend(c)
  \/ \E c \in LoopConns : CycleSendFails(c)
  \/ \E c \in LoopConns : CycleFinally(c)

\* C28: a failed capture sends the handler into its backoff and from there back
\* to the top of the loop: over these steps nothing is written on the
\* connection, the connection stays open and stays listed.
CaptureFailureSkipsCycle ==
  [][\A c \in LoopConns :
       /\ (handlers[c].pc = "capture" /\ handlers'[c].frame = "failed") =>
            /\ handlers'[c].pc = "backoff"
            /\ lastFrame' = lastFrame /\ framesSent' = framesSent
            /\ handlers'[c].open /\ handlers'[c].listed
       /\ (handlers[c].pc = "backoff" /\ handlers'[c] # handlers[c]) =>
            /\ handlers'[c].pc = "loop"
            /\ lastFrame' = lastFrame /\ framesSent' = framesSent
            /\ handlers'[c].open /\ handlers'[c].listed]_loopVars

\* a frame went out on a connection after a capture had failed on it
CaptureFailureSkipsCycleWitness ==
  \E c \in LoopConns :
    /\ lastFrame.sent /\ lastFrame.conn = c /\ lastFrame.afterMiss
    /\ handlers[c].open /\ handlers[c].listed

\* C29: a frame whose cycle began after n setter calls is encoded with the
\* quality, and was let through by the frame-rate test with the frame interval,
\* that the n-th call or a call during the cycle left behind (those of the n-th
\* call when none came during the cycle); and a setter call closes or restarts
\* no connection.
SettingsTakeEffect ==
  /\ [](/\ lastFrame.sent =>
            /\ lastFrame.frame_time = settingsLog[lastFrame.startCall + 1].frame_time
            /\ \E e \in lastFrame.startCall .. lastFrame.sendCall :
                 lastFrame.quality = settingsLog[e + 1].quality
        /\ \A c \in LoopConns :
             handlers[c].pc \in {"capture", "backoff", "send"} =>
               /\ handlers[c].frame_time = settingsLog[handlers[c].startCall + 1].frame_time
               /\ ~TooSoon(handlers[c].gap, handlers[c].frame_time))
  /\ [][setCalls' # setCalls => handlers' = handlers]_loopVars

\* after set_quality(150) two frames went out, the later one on connection B
\* with quality 100, and both connections are open
SettingsTakeEffectWitness ==
  /\ setCalls = 1
  /\ settings.quality = 100
  /\ framesSent = 2
  /\ lastFrame.conn = "B" /\ lastFrame.startCall = 1 /\ lastFrame.quality = 100
  /\ \A c \in LoopConns : handlers[c].open /\ handlers[c].listed

(***************************************************************************)
(* The threads of a StreamServer over start(), stop(), start().  start()   *)
(* creates both listeners and starts one accept thread for each; stop()    *)
(* clears running, closes the sockets of self.connections and both         *)
(* listeners, and joins no thread.  accept() on a closed listener raises,  *)
(* and the accept loop sleeps 0.1 s before it tests self.running again.    *)
(***************************************************************************)
MaxSessions == 2
ListenerKinds == {"video", "command"}
AcceptThreads == ListenerKinds \X (1..MaxSessions)
\* self.server_socket or self.command_socket
ListenerOf(s, kind) == IF kind = "video" THEN s.server_socket ELSE s.command_socket
NoFrameSent == [by |-> 0, during |-> 0]

RestartIdle ==
  /\ srv = [running |-> FALSE, server_socket |-> 0, command_socket |-> 0, connections |-> {}]
  /\ sessions = 0
  /\ listenerOpen = {}
  /\ acceptors = [t \in AcceptThreads |-> [pc |-> "none", on |-> 0]]
  /\ senders = [c \in 1..MaxSessions |-> [pc |-> "none", open |-> FALSE]]
  /\ lastSend = NoFrameSent

RestartInit == RestartIdle

\* start() that succeeds: both listeners, running, the two accept threads
RestartStart ==
  /\ UNCHANGED notRestartVars
  /\ ~srv.running
  /\ sessions < MaxSessions
  /\ LET n == sessions + 1
     IN  /\ sessions' = n
         /\ srv' = [srv EXCEPT !.running = TRUE, !.server_socket = n, !.command_socket = n]
         /\ listenerOpen' = listenerOpen \cup {<<"video", n>>, <<"command", n>>}
         /\ acceptors' = [acceptors EXCEPT ![<<"video", n>>] = [pc |-> "top", on |-> 0],
                                           ![<<"command", n>>] = [pc |-> "top", on |-> 0]]
  /\ UNCHANGED <<senders, lastSend>>

\* stop()
RestartStop ==
  /\ UNCHANGED notRestartVars
  /\ srv.running
  /\ srv' = [running |-> FALSE, server_socket |-> 0, command_socket |-> 0, connections |-> {}]
  /\ senders' = [c \in 1..MaxSessions |->
                   IF c \in srv.connections THEN [senders[c] EXCEPT !.open = FALSE]
                   ELSE senders[c]]
  /\ listenerOpen' = listenerOpen \ {<<"video", srv.server_socket>>,
                                     <<"command", srv.command_socket>>}
  /\ UNCHANGED <<sessions, acceptors, lastSend>>

\* an accept loop: `while self.running`, then self.<listener>.accept() (with the
\* listener None: AttributeError, caught, sleep)
AcceptLoopTop(t) ==
  /\ UNCHANGED notRestartVars
  /\ acceptors[t].pc = "top"
  /\ acceptors' =
       [acceptors EXCEPT ![t] =
          IF ~srv.running THEN [pc |-> "done", on |-> 0]
          ELSE IF ListenerOf(srv, t[1]) = 0 THEN [pc |-> "sleep", on |-> 0]
          ELSE [pc |-> "accept", on |-> ListenerOf(srv, t[1])]]
  /\ UNCHANGED <<srv, sessions, listenerOpen, senders, lastSend>>

\* accept() returns a peer: the video loop starts its handler thread, the
\* command loop starts a command handler and comes round
AcceptReturns(t) ==
  /\ UNCHANGED notRestartVars
  /\ acceptors[t].pc = "accept"
  /\ <<t[1], acceptors[t].on>> \in listenerOpen
  /\ IF t[1] = "video"
     THEN /\ senders[acceptors[t].on].pc = "none"
          /\ senders' = [senders EXCEPT ![acceptors[t].on] = [pc |-> "top", open |-> TRUE]]
          /\ acceptors' = [acceptors EXCEPT ![t].pc = "started"]
     ELSE /\ acceptors' = [acceptors EXCEPT ![t].pc = "top"]
          /\ UNCHANGED senders
  /\ UNCHANGED <<srv, sessions, listenerOpen, lastSend>>

\* self.connections.append(client_socket)
AcceptAppends(t) ==
  /\ UNCHANGED notRestartVars
  /\ acceptors[t].pc = "started"
  /\ srv' = [srv EXCEPT !.connections = @ \cup {acceptors[t].on}]
  /\ acceptors' = [acceptors EXCEPT ![t].pc = "top"]
  /\ UNCHANGED <<sessions, listenerOpen, senders, lastSend>>

\* accept() on a listener that was closed raises: time.sleep(0.1)
AcceptRaises(t) ==
  /\ UNCHANGED notRestartVars
  /\ acceptors[t].pc = "accept"
  /\ <<t[1], acceptors[t].on>> \notin listenerOpen
  /\ acceptors' = [acceptors EXCEPT ![t].pc = "sleep"]
  /\ UNCHANGED <<srv, sessions, listenerOpen, senders, lastSend>>

\* the sleep is over
AcceptWakes(t) ==
  /\ UNCHANGED notRestartVars
  /\ acceptors[t].pc = "sleep"
  /\ acceptors' = [acceptors EXCEPT ![t].pc = "top"]
  /\ UNCHANGED <<srv, sessions, listenerOpen, senders, lastSend>>

\* _handle_client: `while self.running`; after the loop the finally closes the
\* socket and takes it from self.connections
SenderTop(c) ==
  /\ UNCHANGED notRestartVars
  /\ senders[c].pc = "top"
  /\ IF srv.running
     THEN /\ senders' = [senders EXCEPT ![c].pc = "send"]
          /\ UNCHANGED srv
     ELSE /\ senders' = [senders EXCEPT ![c] = [pc |-> "done", open |-> FALSE]]
          /\ srv' = [srv EXCEPT !.connections = @ \ {c}]
  /\ UNCHANGED <<sessions, listenerOpen, acceptors, lastSend>>

\* capture, encode, sendall: a frame goes out, or sendall raises on the closed
\* socket and the finally runs
SenderSends(c) ==
  /\ UNCHANGED notRestartVars
  /\ senders[c].pc = "send"
  /\ IF senders[c].open
     THEN /\ senders' = [senders EXCEPT ![c].pc = "top"]
          /\ lastSend' = [by |-> c, during |-> sessions]
          /\ UNCHANGED srv
     ELSE /\ senders' = [senders EXCEPT ![c].pc = "done"]
          /\ srv' = [srv EXCEPT !.connections = @ \ {c}]
          /\ UNCHANGED lastSend
  /\ UNCHANGED <<sessions, listenerOpen, acceptors>>

RestartNext ==
  \/ RestartStart
  \/ RestartStop
  \/ \E t \in AcceptThreads : AcceptLoopTop(t)
  \/ \E t \in AcceptThreads : AcceptReturns(t)
  \/ \E t \in AcceptThreads : AcceptAppends(t)
  \/ \E t \in AcceptThreads : AcceptRaises(t)
  \/ \E t \in AcceptThreads : AcceptWakes(t)
  \/ \E c \in 1..MaxSessions : SenderTop(c)
  \/ \E c \in 1..MaxSessions : SenderSends(c)

\* C35: over start(), stop(), start() an accept thread only ever accepts on the
\* listener of the session that started it, so that each listener has one
\* accept loop; and a video handler only sends in the session its connection
\* was accepted in.
OneAcceptLoopPerSession ==
  /\ \A t \in AcceptThreads : acceptors[t].pc = "accept" => acceptors[t].on = t[2]
  /\ lastSend.by = lastSend.during

\* what holds: a handler whose socket stop() closed sends nothing more
ClosedConnectionStaysSilent ==
  [][\A c \in 1..MaxSessions :
       (~senders[c].open /\ lastSend' # lastSend) => lastSend'.by # c]_restartVars

(***************************************************************************)
(* The threads of a StreamClient over connect(), disconnect(), connect():  *)
(* the caller, the receive thread each connect() starts, and a thread in   *)
(* send_command.  disconnect() is run by the caller and, at the end of     *)
(* _receive_frames, by the receive thread; it is followed statement by     *)
(* statement.  A frame is a length prefix of one chunk and a payload of    *)
(* two.  recv on a socket that was closed raises OSError (EBADF), which is *)
(* no ConnectionError.                                                     *)
(***************************************************************************)
MaxConnects == 2
MaxRecv == 3
PayloadChunks == 2
ClientThreads == 0..MaxConnects
NewClient == [running |-> FALSE, client_socket |-> 0, command_socket |-> 0, data |-> <<>>]
NoCommandSent == [called |-> FALSE, checked |-> FALSE, returned |-> FALSE, raised |-> FALSE,
                  socket |-> 0, wasOpen |-> FALSE]
NoPrefix == [by |-> 0, origin |-> 0]
NoClose == [by |-> 0, socket |-> 0]
IdleReceiver == [pc |-> "none", on |-> 0, back |-> "size"]

\* connect() without its test of self.running
connect_client_unchecked(cl, n, outcome) ==
  IF outcome = "ok"
  THEN [client |-> [cl EXCEPT !.running = TRUE, !.client_socket = n, !.command_socket = n],
        returned |-> TRUE, created |-> TRUE]
  ELSE [client |-> [cl EXCEPT !.client_socket = 0, !.command_socket = 0],
        returned |-> FALSE, created |-> TRUE]

\* StreamClient.connect(): [client, returned, created]; n numbers the sockets it
\* creates, created tells whether it created any; a receive thread is started
\* when it returns True.  When a socket.connect raises, the except closes and
\* clears both sockets.
connect_client(cl, n, outcome) ==
  IF cl.running THEN [client |-> cl, returned |-> FALSE, created |-> FALSE]
  ELSE IF outcome = "ok"
  THEN [client |-> [cl EXCEPT !.running = TRUE, !.client_socket = n, !.command_socket = n],
        returned |-> TRUE, created |-> TRUE]
  ELSE [client |-> [cl EXCEPT !.client_socket = 0, !.command_socket = 0],
        returned |-> FALSE, created |-> TRUE]

\* StreamClient.disconnect() as one step
disconnect_client(cl) ==
  [cl EXCEPT !.running = FALSE, !.client_socket = 0, !.command_socket = 0]

\* the write of send_command, without its try
WriteCommandUnguarded(sock, isOpen, outcome) ==
  IF sock = 0 \/ ~isOpen \/ outcome # "ok"
  THEN [returned |-> FALSE, raised |-> TRUE, written |-> FALSE]
  ELSE [returned |-> TRUE, raised |-> FALSE, written |-> TRUE]

\* the try of send_command: self.command_socket.sendall(...) -> True; on None
\* (AttributeError), on a closed socket (OSError) and on a broken connection the
\* except returns False
WriteCommand(sock, isOpen, outcome) ==
  IF sock = 0 \/ ~isOpen \/ outcome # "ok"
  THEN [returned |-> FALSE, raised |-> FALSE, written |-> FALSE]
  ELSE [returned |-> TRUE, raised |-> FALSE, written |-> TRUE]

SessionIdle ==
  /\ cli = NewClient
  /\ connects = 0
  /\ openSockets = {}
  /\ receivers = [n \in 1..MaxConnects |-> IdleReceiver]
  /\ disconnecting = [t \in ClientThreads |-> "idle"]
  /\ sendPc = "idle"
  /\ cmdSent = NoCommandSent
  /\ lastPrefix = NoPrefix
  /\ lastClose = NoClose
  /\ recvCount = 0

\* StreamClient(callback)
SessionInit == SessionIdle

\* connect(host, port) by the caller, on a client that is not running
SessionConnect(outcome) ==
  /\ UNCHANGED notSessionVars
  /\ disconnecting[0] = "idle"
  /\ ~cli.running
  /\ connects < MaxConnects
  /\ LET n == connects + 1
         r == connect_client(cli, n, outcome)
     IN  /\ connects' = n
         /\ cli' = r.client
         /\ openSockets' = IF r.returned THEN openSockets \cup {<<"video", n>>, <<"command", n>>}
                           ELSE openSockets
         /\ receivers' = IF r.returned
                         THEN [receivers EXCEPT ![n] = [IdleReceiver EXCEPT !.pc = "top"]]
                         ELSE receivers
  /\ UNCHANGED <<disconnecting, sendPc, cmdSent, lastPrefix, lastClose, recvCount>>

\* disconnect() by the caller: self.running = False, then the sockets
SessionDisconnect ==
  /\ UNCHANGED notSessionVars
  /\ disconnecting[0] = "idle"
  /\ connects > 0
  /\ cli' = [cli EXCEPT !.running = FALSE]
  /\ disconnecting' = [disconnecting EXCEPT ![0] = "video_close"]
  /\ UNCHANGED <<connects, openSockets, receivers, sendPc, cmdSent, lastPrefix, lastClose,
                 recvCount>>

\* `if self.client_socket:` ... close()
DisconnectVideoClose(t) ==
  /\ UNCHANGED notSessionVars
  /\ disconnecting[t] = "video_close"
  /\ IF cli.client_socket = 0
     THEN /\ disconnecting' = [disconnecting EXCEPT ![t] = "command_close"]
          /\ UNCHANGED <<openSockets, lastClose>>
     ELSE /\ disconnecting' = [disconnecting EXCEPT ![t] = "video_clear"]
          /\ openSockets' = openSockets \ {<<"video", cli.client_socket>>}
          /\ lastClose' = [by |-> t, socket |-> cli.client_socket]
  /\ UNCHANGED <<cli, connects, receivers, sendPc, cmdSent, lastPrefix, recvCount>>

\* self.client_socket = None
DisconnectVideoClear(t) ==
  /\ UNCHANGED notSessionVars
  /\ disconnecting[t] = "video_clear"
  /\ cli' = [cli EXCEPT !.client_socket = 0]
  /\ disconnecting' = [disconnecting EXCEPT ![t] = "command_close"]
  /\ UNCHANGED <<connects, openSockets, receivers, sendPc, cmdSent, lastPrefix, lastClose,
                 recvCount>>

\* `if self.command_socket:` ... close()
DisconnectCommandClose(t) ==
  /\ UNCHANGED notSessionVars
  /\ disconnecting[t] = "command_close"
  /\ IF cli.command_socket = 0
     THEN /\ disconnecting' = [disconnecting EXCEPT ![t] = "idle"]
          /\ receivers' = [n \in 1..MaxConnects |->
                             IF n = t THEN [receivers[n] EXCEPT !.pc = "done"] ELSE receivers[n]]
          /\ UNCHANGED <<openSockets, lastClose>>
     ELSE /\ disconnecting' = [disconnecting EXCEPT ![t] = "command_clear"]
          /\ openSockets' = openSockets \ {<<"command", cli.command_socket>>}
          /\ lastClose' = [by |-> t, socket |-> cli.command_socket]
          /\ UNCHANGED receivers
  /\ UNCHANGED <<cli, connects, sendPc, cmdSent, lastPrefix, recvCount>>

\* self.command_socket = None; disconnect() returns (a receive thread ends)
DisconnectCommandClear(t) ==
  /\ UNCHANGED notSessionVars
  /\ disconnecting[t] = "command_clear"
  /\ cli' = [cli EXCEPT !.command_socket = 0]
  /\ disconnecting' = [disconnecting EXCEPT ![t] = "idle"]
  /\ receivers' = [n \in 1..MaxConnects |->
                     IF n = t THEN [receivers[n] EXCEPT !.pc = "done"] ELSE receivers[n]]
  /\ UNCHANGED <<connects, openSockets, sendPc, cmdSent, lastPrefix, lastClose, recvCount>>

\* _receive_frames: `while self.running`
ReceiverTop(n) ==
  /\ UNCHANGED notSessionVars
  /\ receivers[n].pc = "top"
  /\ receivers' = [receivers EXCEPT ![n].pc = IF cli.running THEN "size" ELSE "teardown"]
  /\ UNCHANGED <<cli, connects, openSockets, disconnecting, sendPc, cmdSent, lastPrefix,
                 lastClose, recvCount>>

\* `while len(self.data) < self.payload_size`: the prefix is taken from
\* self.data, or recv is called on self.client_socket (None: AttributeError)
ReceiverSize(n) ==
  /\ UNCHANGED notSessionVars
  /\ receivers[n].pc = "size"
  /\ IF cli.data # <<>>
     THEN /\ cli' = [cli EXCEPT !.data = Tail(@)]
          /\ lastPrefix' = [by |-> n, origin |-> Head(cli.data)]
          /\ receivers' = [receivers EXCEPT ![n].pc = "payload"]
     ELSE /\ receivers' = [receivers EXCEPT ![n] =
                             IF cli.client_socket = 0 THEN [@ EXCEPT !.pc = "sleep"]
                             ELSE [pc |-> "recv", on |-> cli.client_socket, back |-> "size"]]
          /\ UNCHANGED <<cli, lastPrefix>>
  /\ UNCHANGED <<connects, openSockets, disconnecting, sendPc, cmdSent, lastClose, recvCount>>

\* `while len(self.data) < msg_size`: the payload is taken, decoded and handed
\* to the callback, or recv is called
ReceiverPayload(n) ==
  /\ UNCHANGED notSessionVars
  /\ receivers[n].pc = "payload"
  /\ IF Len(cli.data) >= PayloadChunks
     THEN /\ cli' = [cli EXCEPT !.data = SubSeq(@, PayloadChunks + 1, Len(@))]
          /\ receivers' = [receivers EXCEPT ![n].pc = "top"]
     ELSE /\ receivers' = [receivers EXCEPT ![n] =
                             IF cli.client_socket = 0 THEN [@ EXCEPT !.pc = "sleep"]
                             ELSE [pc |-> "recv", on |-> cli.client_socket, back |-> "payload"]]
          /\ UNCHANGED cli
  /\ UNCHANGED <<connects, openSockets, disconnecting, sendPc, cmdSent, lastPrefix, lastClose,
                 recvCount>>

\* recv returns a chunk: self.data += packet
ReceiverRecv(n) ==
  /\ UNCHANGED notSessionVars
  /\ receivers[n].pc = "recv"
  /\ <<"video", receivers[n].on>> \in openSockets
  /\ recvCount < MaxRecv
  /\ recvCount' = recvCount + 1
  /\ cli' = [cli EXCEPT !.data = Append(@, receivers[n].on)]
  /\ receivers' = [receivers EXCEPT ![n].pc = receivers[n].back]
  /\ UNCHANGED <<connects, openSockets, disconnecting, sendPc, cmdSent, lastPrefix, lastClose>>

\* recv returns b"" (the server closed): ConnectionError, break
ReceiverEof(n) ==
  /\ UNCHANGED notSessionVars
  /\ receivers[n].pc = "recv"
  /\ <<"video", receivers[n].on>> \in openSockets
  /\ receivers' = [receivers EXCEPT ![n].pc = "teardown"]
  /\ UNCHANGED <<cli, connects, openSockets, disconnecting, sendPc, cmdSent, lastPrefix,
                 lastClose, recvCount>>

\* recv on a socket that disconnect() closed raises OSError: `except Exception`,
\* time.sleep(0.1)
ReceiverRecvRaises(n) ==
  /\ UNCHANGED notSessionVars
  /\ receivers[n].pc = "recv"
  /\ <<"video", receivers[n].on>> \notin openSockets
  /\ receivers' = [receivers EXCEPT ![n].pc = "sleep"]
  /\ UNCHANGED <<cli, connects, openSockets, disconnecting, sendPc, cmdSent, lastPrefix,
                 lastClose, recvCount>>

\* the sleep is over
ReceiverWakes(n) ==
  /\ UNCHANGED notSessionVars
  /\ receivers[n].pc = "sleep"
  /\ receivers' = [receivers EXCEPT ![n].pc = "top"]
  /\ UNCHANGED <<cli, connects, openSockets, disconnecting, sendPc, cmdSent, lastPrefix,
                 lastClose, recvCount>>

\* after the loop: self.disconnect(), which begins with self.running = False
ReceiverTeardown(n) ==
  /\ UNCHANGED notSessionVars
  /\ receivers[n].pc = "teardown"
  /\ cli' = [cli EXCEPT !.running = FALSE]
  /\ receivers' = [receivers EXCEPT ![n].pc = "disconnect"]
  /\ disconnecting' = [disconnecting EXCEPT ![n] = "video_close"]
  /\ UNCHANGED <<connects, openSockets, sendPc, cmdSent, lastPrefix, lastClose, recvCount>>

\* send_command: `if not self.running or not self.command_socket: return False`
SendCheck ==
  /\ UNCHANGED notSessionVars
  /\ sendPc = "idle"
  /\ connects > 0
  /\ IF ~cli.running \/ cli.command_socket = 0
     THEN /\ cmdSent' = [NoCommandSent EXCEPT !.called = TRUE]
          /\ UNCHANGED sendPc
     ELSE /\ sendPc' = "write"
          /\ UNCHANGED cmdSent
  /\ UNCHANGED <<cli, connects, openSockets, receivers, disconnecting, lastPrefix, lastClose,
                 recvCount>>

\* send_command: the try
SendWrite(outcome) ==
  /\ UNCHANGED notSessionVars
  /\ sendPc = "write"
  /\ LET sock == cli.command_socket
         isOpen == <<"command", sock>> \in openSockets
         r == WriteCommand(sock, isOpen, outcome)
     IN  cmdSent' = [called |-> TRUE, checked |-> TRUE, returned |-> r.returned,
                     raised |-> r.raised, socket |-> sock, wasOpen |-> isOpen]
  /\ sendPc' = "idle"
  /\ UNCHANGED <<cli, connects, openSockets, receivers, disconnecting, lastPrefix, lastClose,
                 recvCount>>

SessionNext ==
  \/ \E outcome \in {"ok", "fails"} : SessionConnect(outcome)
  \/ SessionDisconnect
  \/ \E t \in ClientThreads : DisconnectVideoClose(t)
  \/ \E t \in ClientThreads : DisconnectVideoClear(t)
  \/ \E t \in ClientThreads : DisconnectCommandClose(t)
  \/ \E t \in ClientThreads : DisconnectCommandClear(t)
  \/ \E n \in 1..MaxConnects : ReceiverTop(n)
  \/ \E n \in 1..MaxConnects : ReceiverSize(n)
  \/ \E n \in 1..MaxConnects : ReceiverPayload(n)
  \/ \E n \in 1..MaxConnects : ReceiverRecv(n)
  \/ \E n \in 1..MaxConnects : ReceiverEof(n)
  \/ \E n \in 1..MaxConnects : ReceiverRecvRaises(n)
  \/ \E n \in 1..MaxConnects : ReceiverWakes(n)
  \/ \E n \in 1..MaxConnects : ReceiverTeardown(n)

\* the first connect() of a client
FirstConnect(outcome) ==
  /\ connects = 0
  /\ SessionConnect(outcome)

\* one session of the client, without incoming frames, and a thread calling
\* send_command
SendNext ==
  \/ \E outcome \in {"ok", "fails"} : FirstConnect(outcome)
  \/ SessionDisconnect
  \/ \E t \in ClientThreads : DisconnectVideoClose(t)
  \/ \E t \in ClientThreads : DisconnectVideoClear(t)
  \/ \E t \in ClientThreads : DisconnectCommandClose(t)
  \/ \E t \in ClientThreads : DisconnectCommandClear(t)
  \/ \E n \in 1..MaxConnects : ReceiverTop(n)
  \/ \E n \in 1..MaxConnects : ReceiverSize(n)
  \/ \E n \in 1..MaxConnects : ReceiverEof(n)
  \/ \E n \in 1..MaxConnects : ReceiverRecvRaises(n)
  \/ \E n \in 1..MaxConnects : ReceiverWakes(n)
  \/ \E n \in 1..MaxConnects : ReceiverTeardown(n)
  \/ SendCheck
  \/ \E outcome \in {"ok", "broken_pipe"} : SendWrite(outcome)

\* C37: a session starts with an empty receive buffer: when connect() succeeds,
\* self.data holds no bytes of an earlier session.
SessionStartsEmpty ==
  [][(connects' # connects /\ cli'.running) => cli'.data = <<>>]_sessionVars

\* ... so that the length prefix a receive thread takes was read from the
\* socket of its own session
FirstPrefixIsOwn ==
  lastPrefix.origin = lastPrefix.by

\* C38: after disconnect() and connect() the receive thread of the earlier
\* session neither reads from the socket of the new session nor disconnects
\* it: a receive thread calls recv on the socket of its own session only, and
\* the disconnect() it ends with closes no socket of another session.
OneReceiverPerSession ==
  /\ \A n \in 1..MaxConnects : receivers[n].pc = "recv" => receivers[n].on = n
  /\ lastClose.by # 0 => lastClose.socket = lastClose.by

\* C40: send_command never raises and returns a boolean, whatever disconnect()
\* and the receive thread do meanwhile; it returns True only when it has
\* written to a command socket that was open at the write.
SendCommandSafe ==
  cmdSent.called =>
    /\ ~cmdSent.raised
    /\ cmdSent.returned \in BOOLEAN
    /\ cmdSent.returned => (cmdSent.checked /\ cmdSent.socket # 0 /\ cmdSent.wasOpen)

\* send_command passed its test, the receive thread's disconnect() then cleared
\* the command socket, and the write found None: False, no exception
SendCommandSafeWitness ==
  /\ cmdSent.called /\ cmdSent.checked
  /\ cmdSent.socket = 0
  /\ ~cmdSent.returned
  /\ lastClose.by = 1

(***************************************************************************)
(* start() and connect() called whatever the state of the object: a        *)
(* StreamServer and a StreamClient of one process, as their callers see    *)
(* them.  The tunnel provider grants what it is asked.                     *)
(***************************************************************************)
NoRefusal == [op |-> "", calls |-> 0, onRunning |-> FALSE, returned |-> FALSE, refused |-> {}]
MaxCalls == 4

RefuseIdle ==
  /\ streamServer = NewServer
  /\ serverNgrok = FALSE
  /\ streamClient = NewClient
  /\ socketsMade = 0
  /\ receiveThreads = 0
  /\ lastRefusal = NoRefusal

\* StreamServer(use_ngrok=...), StreamClient()
RefuseInit ==
  /\ streamServer = NewServer
  /\ serverNgrok \in BOOLEAN
  /\ streamClient = NewClient
  /\ socketsMade = 0
  /\ receiveThreads = 0
  /\ lastRefusal = NoRefusal

\* server.start(), running or not
AnyStart(outcome) ==
  /\ UNCHANGED notRefuseVars
  /\ lastRefusal.calls < MaxCalls
  /\ streamServer.accept_threads < MaxStarts
  /\ serverNgrok => streamServer.ngrok_service.nextHandle < MaxHandles
  /\ LET r == start(streamServer, 5000, 5001, serverNgrok, outcome, NoAnswers)
     IN  /\ streamServer' = r.server
         /\ lastRefusal' = [op |-> "start", calls |-> lastRefusal.calls + 1,
                            onRunning |-> streamServer.running, returned |-> r.returned,
                            refused |-> IF streamServer.running
                                        THEN lastRefusal.refused \cup {"start"}
                                        ELSE lastRefusal.refused]
  /\ UNCHANGED <<serverNgrok, streamClient, socketsMade, receiveThreads>>

\* server.stop()
AnyStop ==
  /\ UNCHANGED notRefuseVars
  /\ streamServer' = stop_server(streamServer, serverNgrok, NoAnswers.stops)
  /\ streamServer' # streamServer
  /\ UNCHANGED <<serverNgrok, streamClient, socketsMade, receiveThreads, lastRefusal>>

\* client.connect(), connected or not
AnyConnect(outcome) ==
  /\ UNCHANGED notRefuseVars
  /\ lastRefusal.calls < MaxCalls
  /\ socketsMade < MaxConnects
  /\ LET r == connect_client(streamClient, socketsMade + 1, outcome)
     IN  /\ streamClient' = r.client
         /\ socketsMade' = IF r.created THEN socketsMade + 1 ELSE socketsMade
         /\ receiveThreads' = IF r.returned THEN receiveThreads + 1 ELSE receiveThreads
         /\ lastRefusal' = [op |-> "connect", calls |-> lastRefusal.calls + 1,
                            onRunning |-> streamClient.running, returned |-> r.returned,
                            refused |-> IF streamClient.running
                                        THEN lastRefusal.refused \cup {"connect"}
                                        ELSE lastRefusal.refused]
  /\ UNCHANGED <<streamServer, serverNgrok>>

\* client.disconnect()
AnyDisconnect ==
  /\ UNCHANGED notRefuseVars
  /\ streamClient' = disconnect_client(streamClient)
  /\ streamClient' # streamClient
  /\ UNCHANGED <<streamServer, serverNgrok, socketsMade, receiveThreads, lastRefusal>>

RefuseNext ==
  \/ \E outcome \in StartOutcomes : AnyStart(outcome)
  \/ AnyStop
  \/ \E outcome \in {"ok", "fails"} : AnyConnect(outcome)
  \/ AnyDisconnect

\* C39: start() on a running server and connect() on a connected client return
\* False and change nothing: the sockets, the thread counts and every other
\* field of the server and of the client are what they were.
RunningRefusesSecondCall ==
  [][(lastRefusal'.calls # lastRefusal.calls /\ lastRefusal'.onRunning) =>
       /\ ~lastRefusal'.returned
       /\ streamServer' = streamServer
       /\ streamClient' = streamClient
       /\ socketsMade' = socketsMade
       /\ receiveThreads' = receiveThreads]_refuseVars

\* both have happened: a start() on the running server and a connect() on the
\* connected client were refused, and both sessions are still up
RunningRefusesSecondCallWitness ==
  /\ lastRefusal.refused = {"start", "connect"}
  /\ lastRefusal.onRunning /\ ~lastRefusal.returned
  /\ streamClient.running /\ streamClient.client_socket = 1 /\ receiveThreads = 1
  /\ streamServer.running /\ streamServer.accept_threads = 1
  /\ streamServer.server_socket = "listening"

vars == <<codecVars, cmdVars, tunnelVars, videoVars, clientVars, urlVars, diagVars, settingVars, stopVars, connVars, startVars, monitorVars, executorVars, loopVars, restartVars, sessionVars, refuseVars>>

\* the subsystems at rest, for the specifications of the other subsystems
CmdIdle ==
  /\ cmdLines = <<>>
  /\ cmdWire = <<>>
  /\ cmdBuffer = <<>>
  /\ cmdPc = "closed"
  /\ cmdExit = ""
  /\ cmdSplit = FALSE
  /\ dispatched = <<>>
  /\ applied = <<>>

ClientIdle ==
  /\ frames = <<>>
  /\ writer = [kind |-> "wire", platform |-> [size |-> 4, order |-> "big"]]
  /\ platform = [size |-> 8, order |-> "little"]
  /\ corruption = "none"
  /\ vidWire = <<>>
  /\ self_data = <<>>
  /\ rPc = "done"
  /\ msg_size = 0
  /\ delivered = <<>>
  /\ cliRunning = FALSE
  /\ callbackFaults = <<>>
  /\ recvFaults = {}
  /\ client_socket = "none"
  /\ command_socket = "none"

InitCodec == CodecInit /\ CmdIdle /\ TunnelInit /\ VideoInit /\ ClientIdle /\ UrlIdle /\ DiagIdle /\ SettingIdle /\ StopIdle /\ ConnIdle /\ StartIdle /\ MonitorIdle /\ ExecutorIdle /\ LoopIdle /\ RestartIdle /\ SessionIdle /\ RefuseIdle
InitCmd == CodecInit /\ CmdInit /\ TunnelInit /\ VideoInit /\ ClientIdle /\ UrlIdle /\ DiagIdle /\ SettingIdle /\ StopIdle /\ ConnIdle /\ StartIdle /\ MonitorIdle /\ ExecutorIdle /\ LoopIdle /\ RestartIdle /\ SessionIdle /\ RefuseIdle
InitTunnel == CodecInit /\ CmdIdle /\ TunnelInit /\ VideoInit /\ ClientIdle /\ UrlIdle /\ DiagIdle /\ SettingIdle /\ StopIdle /\ ConnIdle /\ StartIdle /\ MonitorIdle /\ ExecutorIdle /\ LoopIdle /\ RestartIdle /\ SessionIdle /\ RefuseIdle
InitVideo == CodecInit /\ CmdIdle /\ TunnelInit /\ VideoInit /\ ClientIdle /\ UrlIdle /\ DiagIdle /\ SettingIdle /\ StopIdle /\ ConnIdle /\ StartIdle /\ MonitorIdle /\ ExecutorIdle /\ LoopIdle /\ RestartIdle /\ SessionIdle /\ RefuseIdle
InitClient == CodecInit /\ CmdIdle /\ TunnelInit /\ VideoInit /\ ClientInit /\ UrlIdle /\ DiagIdle /\ SettingIdle /\ StopIdle /\ ConnIdle /\ StartIdle /\ MonitorIdle /\ ExecutorIdle /\ LoopIdle /\ RestartIdle /\ SessionIdle /\ RefuseIdle
InitUrl == CodecInit /\ CmdIdle /\ TunnelInit /\ VideoInit /\ ClientIdle /\ UrlInit /\ DiagIdle /\ SettingIdle /\ StopIdle /\ ConnIdle /\ StartIdle /\ MonitorIdle /\ ExecutorIdle /\ LoopIdle /\ RestartIdle /\ SessionIdle /\ RefuseIdle
InitDiag == CodecInit /\ CmdIdle /\ TunnelInit /\ VideoInit /\ ClientIdle /\ UrlIdle /\ DiagInit /\ SettingIdle /\ StopIdle /\ ConnIdle /\ StartIdle /\ MonitorIdle /\ ExecutorIdle /\ LoopIdle /\ RestartIdle /\ SessionIdle /\ RefuseIdle
InitSetting == CodecInit /\ CmdIdle /\ TunnelInit /\ VideoInit /\ ClientIdle /\ UrlIdle /\ DiagIdle /\ SettingInit /\ StopIdle /\ ConnIdle /\ StartIdle /\ MonitorIdle /\ ExecutorIdle /\ LoopIdle /\ RestartIdle /\ SessionIdle /\ RefuseIdle
InitStop == CodecInit /\ CmdIdle /\ TunnelInit /\ VideoInit /\ ClientIdle /\ UrlIdle /\ DiagIdle /\ SettingIdle /\ StopInit /\ ConnIdle /\ StartIdle /\ MonitorIdle /\ ExecutorIdle /\ LoopIdle /\ RestartIdle /\ SessionIdle /\ RefuseIdle
InitConn == CodecInit /\ CmdIdle /\ TunnelInit /\ VideoInit /\ ClientIdle /\ UrlIdle /\ DiagIdle /\ SettingIdle /\ StopIdle /\ ConnInit /\ StartIdle /\ MonitorIdle /\ ExecutorIdle /\ LoopIdle /\ RestartIdle /\ SessionIdle /\ RefuseIdle
InitStart == CodecInit /\ CmdIdle /\ TunnelInit /\ VideoInit /\ ClientIdle /\ UrlIdle /\ DiagIdle /\ SettingIdle /\ StopIdle /\ ConnIdle /\ StartInit /\ MonitorIdle /\ ExecutorIdle /\ LoopIdle /\ RestartIdle /\ SessionIdle /\ RefuseIdle
InitMonitor == CodecInit /\ CmdIdle /\ TunnelInit /\ VideoInit /\ ClientIdle /\ UrlIdle /\ DiagIdle /\ SettingIdle /\ StopIdle /\ ConnIdle /\ StartIdle /\ MonitorInit /\ ExecutorIdle /\ LoopIdle /\ RestartIdle /\ SessionIdle /\ RefuseIdle
InitExecutor == CodecInit /\ CmdIdle /\ TunnelInit /\ VideoInit /\ ClientIdle /\ UrlIdle /\ DiagIdle /\ SettingIdle /\ StopIdle /\ ConnIdle /\ StartIdle /\ MonitorIdle /\ ExecutorInit /\ LoopIdle /\ RestartIdle /\ SessionIdle /\ RefuseIdle
InitLoop == CodecInit /\ CmdIdle /\ TunnelInit /\ VideoInit /\ ClientIdle /\ UrlIdle /\ DiagIdle /\ SettingIdle /\ StopIdle /\ ConnIdle /\ StartIdle /\ MonitorIdle /\ ExecutorIdle /\ LoopInit /\ RestartIdle /\ SessionIdle /\ RefuseIdle
InitRestart == CodecInit /\ CmdIdle /\ TunnelInit /\ VideoInit /\ ClientIdle /\ UrlIdle /\ DiagIdle /\ SettingIdle /\ StopIdle /\ ConnIdle /\ StartIdle /\ MonitorIdle /\ ExecutorIdle /\ LoopIdle /\ RestartInit /\ SessionIdle /\ RefuseIdle
InitSession == CodecInit /\ CmdIdle /\ TunnelInit /\ VideoInit /\ ClientIdle /\ UrlIdle /\ DiagIdle /\ SettingIdle /\ StopIdle /\ ConnIdle /\ StartIdle /\ MonitorIdle /\ ExecutorIdle /\ LoopIdle /\ RestartIdle /\ SessionInit /\ RefuseIdle
InitRefuse == CodecInit /\ CmdIdle /\ TunnelInit /\ VideoInit /\ ClientIdle /\ UrlIdle /\ DiagIdle /\ SettingIdle /\ StopIdle /\ ConnIdle /\ StartIdle /\ MonitorIdle /\ ExecutorIdle /\ LoopIdle /\ RestartIdle /\ SessionIdle /\ RefuseInit

SpecCodec == InitCodec /\ [][CodecNext]_vars
SpecCmd == InitCmd /\ [][CmdNext]_vars
SpecTunnel == InitTunnel /\ [][TunnelNext]_vars
SpecVideo == InitVideo /\ [][VideoNext]_vars
SpecClient == InitClient /\ [][ClientNext]_vars /\ ClientFairness
SpecUrl == InitUrl /\ [][UrlNext]_vars
SpecDiag == InitDiag /\ [][DiagNext]_vars
SpecSetting == InitSetting /\ [][SettingNext]_vars
SpecStop == InitStop /\ [][StopNext]_vars /\ StopFairness
SpecConn == InitConn /\ [][ConnNext]_vars
SpecStart == InitStart /\ [][StartNext]_vars
SpecMonitor == InitMonitor /\ [][MonitorNext]_vars
SpecExecutor == InitExecutor /\ [][ExecutorNext]_vars
SpecLoop == InitLoop /\ [][LoopNext]_vars
SpecRestart == InitRestart /\ [][RestartNext]_vars
SpecSession == InitSession /\ [][SessionNext]_vars
SpecSend == InitSession /\ [][SendNext]_vars
SpecRefuse == InitRefuse /\ [][RefuseNext]_vars

=============================================================================
